---- MODULE Spec2Model ----
(***************************************************************************)
(* A model of the business-listing extraction core:                        *)
(*   - enhanced-vision.ts: extractTextWithEnhancedVision and the name      *)
(*     extraction pipeline (preprocessing, three candidate generators,     *)
(*     scoring, deduplication, ranking, confidence);                       *)
(*   - places.ts: searchBusiness and getMultiplePlacesOptions.             *)
(* Strings are TLA+ strings; JavaScript string methods are modelled by the *)
(* operators of the first section.  Confidence scores are held in          *)
(* thousandths (0.5 is 500): every sum the code forms is a multiple of     *)
(* 0.05 and its IEEE-754 value lies on the same side of the thresholds     *)
(* 0.5 and 0.7 as the exact decimal value.                                 *)
(***************************************************************************)
EXTENDS Integers, Sequences, FiniteSets, TLC

\* ------------------------------------------------------------------------
\* Bounds of the model
\* ------------------------------------------------------------------------

\* the largest number of lines in an OCR full text
MaxLines == 4

\* the largest number of raw detections the OCR collaborator returns
MaxDet == 12

\* the largest number of results in a text-search response
MaxResults == 11

\* ------------------------------------------------------------------------
\* JavaScript string methods
\* ------------------------------------------------------------------------

UpperLetters == "ABCDEFGHIJKLMNOPQRSTUVWXYZ"

LowerLetters == "abcdefghijklmnopqrstuvwxyz"

DigitChars == "0123456789"

CharAt(s, i) == SubSeq(s, i, i)

CharsOf(s) == { CharAt(s, i) : i \in 1..Len(s) }

UpperSet == CharsOf(UpperLetters)

LowerSet == CharsOf(LowerLetters)

DigitSet == CharsOf(DigitChars)

\* \s of a JavaScript regular expression, and what trim() strips
SpaceSet == {" ", "\n", "\t", "\r"}

\* String.prototype.toLowerCase on one character
LowerChar(c) ==
  IF c \in UpperSet
    THEN CharAt(LowerLetters, CHOOSE i \in 1..26 : CharAt(UpperLetters, i) = c)
    ELSE c

\* LowerChar tabulated on the letters
LowerOfUpper == [c \in UpperSet |-> LowerChar(c)]

RECURSIVE toLowerCase(_)
toLowerCase(s) ==
  IF s = "" THEN ""
  ELSE LET c == CharAt(s, 1)
       IN  (IF c \in UpperSet THEN LowerOfUpper[c] ELSE c)
             \o toLowerCase(SubSeq(s, 2, Len(s)))

\* String.prototype.includes
includes(s, t) ==
  \E i \in 1..(Len(s) - Len(t) + 1) : SubSeq(s, i, i + Len(t) - 1) = t

\* String.prototype.startsWith
startsWith(s, p) == Len(s) >= Len(p) /\ SubSeq(s, 1, Len(p)) = p

\* String.prototype.split with a one-character separator
RECURSIVE split(_, _)
split(s, sep) ==
  IF \E i \in 1..Len(s) : CharAt(s, i) = sep
    THEN LET k == CHOOSE i \in 1..Len(s) :
                    /\ CharAt(s, i) = sep
                    /\ \A j \in 1..(i - 1) : CharAt(s, j) # sep
         IN  <<SubSeq(s, 1, k - 1)>> \o split(SubSeq(s, k + 1, Len(s)), sep)
    ELSE <<s>>

\* Array.prototype.join
RECURSIVE join(_, _)
join(parts, sep) ==
  IF Len(parts) = 0 THEN ""
  ELSE IF Len(parts) = 1 THEN parts[1]
  ELSE parts[1] \o sep \o join(Tail(parts), sep)

\* String.prototype.trim
RECURSIVE trim(_)
trim(s) ==
  IF s = "" THEN ""
  ELSE IF CharAt(s, 1) \in SpaceSet THEN trim(SubSeq(s, 2, Len(s)))
  ELSE IF CharAt(s, Len(s)) \in SpaceSet THEN trim(SubSeq(s, 1, Len(s) - 1))
  ELSE s

\* s.split(/\s+/).filter(w => w.length > 0).length
countTokens(s) ==
  Cardinality({ i \in 1..Len(s) :
                  /\ CharAt(s, i) \notin SpaceSet
                  /\ (i = 1 \/ CharAt(s, i - 1) \in SpaceSet) })

\* Array.prototype.indexOf, zero-based, -1 when absent
indexOf(arr, x) ==
  IF \E i \in 1..Len(arr) : arr[i] = x
    THEN (CHOOSE i \in 1..Len(arr) :
            arr[i] = x /\ \A j \in 1..(i - 1) : arr[j] # x) - 1
    ELSE -1

\* Array.prototype.slice(from, to), zero-based, end exclusive
slice(arr, from, to) ==
  SubSeq(arr, from + 1, IF to > Len(arr) THEN Len(arr) ELSE to)

Min(a, b) == IF a < b THEN a ELSE b

Max(a, b) == IF a > b THEN a ELSE b

\* the regular expression /^[set]+$/
allIn(s, set) == s # "" /\ \A i \in 1..Len(s) : CharAt(s, i) \in set

\* the regular expression /[set]/
someIn(s, set) == \E i \in 1..Len(s) : CharAt(s, i) \in set

\* ------------------------------------------------------------------------
\* enhanced-vision.ts: the line preprocessor
\* ------------------------------------------------------------------------

StopWords ==
  {"our", "menu", "hours", "open", "closed", "welcome", "visit", "call",
   "phone", "email"}

\* isKept looking the line up in the stoplist as it is written (mutant)
isKept_stopWordsAsWritten(line) ==
  LET lower == toLowerCase(line)
  IN  /\ ~(Len(line) <= 1)
      /\ line \notin StopWords
      /\ ~startsWith(lower, "www")
      /\ ~startsWith(lower, "http")
      /\ ~includes(lower, "@")
      /\ ~allIn(line, DigitSet)
      /\ line # "&"
      /\ line # "-"
      /\ someIn(line, UpperSet \cup LowerSet)

\* the filter callback of preprocessLines: TRUE when no discard reason holds
isKept(line) ==
  LET lower == toLowerCase(line)
  IN  /\ ~(Len(line) <= 1)
      /\ lower \notin StopWords
      /\ ~startsWith(lower, "www")
      /\ ~startsWith(lower, "http")
      /\ ~includes(lower, "@")
      /\ ~allIn(line, DigitSet)
      /\ line # "&"
      /\ line # "-"
      /\ someIn(line, UpperSet \cup LowerSet)

preprocessLines(lines) ==
  SelectSeq([i \in 1..Len(lines) |-> trim(lines[i])], isKept)

\* ------------------------------------------------------------------------
\* enhanced-vision.ts: the three candidate generators
\* ------------------------------------------------------------------------

businessIndicators ==
  << <<"coffee">>, <<"food", "park">>, <<"coffee", "shop">>,
     <<"restaurant">>, <<"market">>, <<"center">>, <<"plaza">>, <<"cafe">>,
     <<"grill">>, <<"bar">> >>

\* the inner loop over businessIndicators: some group has all its words in
\* the lowercased window and the window is shorter than 50 characters
hasIndicator(combined) ==
  LET lowerCombined == toLowerCase(combined)
  IN  \E k \in 1..Len(businessIndicators) :
        /\ \A m \in 1..Len(businessIndicators[k]) :
             includes(lowerCombined, businessIndicators[k][m])
        /\ Len(combined) < 50

\* the number of groups of businessIndicators a window matches
matchingGroups(combined) ==
  Cardinality({ k \in 1..Len(businessIndicators) :
                  \A m \in 1..Len(businessIndicators[k]) :
                    includes(toLowerCase(combined), businessIndicators[k][m]) })

\* contextFrom without the break: a window is pushed once for every group
\* it matches (mutant)
RECURSIVE contextFrom_noBreak(_, _, _)
contextFrom_noBreak(lines, i, j) ==
  IF ~(i < Len(lines)) THEN <<>>
  ELSE IF ~(j <= Min(i + 4, Len(lines)))
    THEN contextFrom_noBreak(lines, i + 1, i + 2)
  ELSE LET combined == join(slice(lines, i, j), " ")
       IN  (IF Len(combined) < 50
              THEN [k \in 1..matchingGroups(combined) |-> combined]
              ELSE <<>>)
             \o contextFrom_noBreak(lines, i, j + 1)

\* the loops of extractWithBusinessContext from (i, j) on, zero-based
RECURSIVE contextFrom(_, _, _)
contextFrom(lines, i, j) ==
  IF ~(i < Len(lines)) THEN <<>>
  ELSE IF ~(j <= Min(i + 4, Len(lines))) THEN contextFrom(lines, i + 1, i + 2)
  ELSE LET combined == join(slice(lines, i, j), " ")
       IN  (IF hasIndicator(combined) THEN <<combined>> ELSE <<>>)
             \o contextFrom(lines, i, j + 1)

extractWithBusinessContext(lines) == contextFrom(lines, 0, 1)

\* the loop of extractWithPositionalWeighting from i on, zero-based
RECURSIVE positionalFrom(_, _)
positionalFrom(lines, i) ==
  IF ~(i < Min(Len(lines), 5)) THEN <<>>
  ELSE LET line == lines[i + 1]
           single == IF Len(line) >= 4 /\ Len(line) <= 15
                       THEN <<line>> ELSE <<>>
           two == IF i < Len(lines) - 1
                    THEN LET combined == lines[i + 1] \o " " \o lines[i + 2]
                         IN  IF Len(combined) <= 30
                               THEN <<combined>> ELSE <<>>
                    ELSE <<>>
           three == IF i < Len(lines) - 2
                      THEN LET combined == lines[i + 1] \o " " \o lines[i + 2]
                                             \o " " \o lines[i + 3]
                           IN  IF Len(combined) <= 40
                                 THEN <<combined>> ELSE <<>>
                      ELSE <<>>
       IN  single \o two \o three \o positionalFrom(lines, i + 1)

extractWithPositionalWeighting(lines) == positionalFrom(lines, 0)

\* /[A-Z][a-z]+/ on a whole word
isProperWord(w) ==
  /\ Len(w) >= 2
  /\ CharAt(w, 1) \in UpperSet
  /\ allIn(SubSeq(w, 2, Len(w)), LowerSet)

\* /[A-Z]+/ on a whole word
isCapsWord(w) == allIn(w, UpperSet)

\* the inner loop over patterns: one of the four anchored expressions
\* matches and the window has at most 35 characters
matchesPattern(combined) ==
  LET words == split(combined, " ")
      proper == \A k \in 1..Len(words) : isProperWord(words[k])
      caps == \A k \in 1..Len(words) : isCapsWord(words[k])
  IN  /\ \/ Len(words) = 2 /\ proper
         \/ Len(words) = 2 /\ caps
         \/ Len(words) = 3 /\ proper
         \/ Len(words) = 3 /\ caps
      /\ Len(combined) <= 35

\* the loops of extractWithPatternMatching from (i, j) on, zero-based
RECURSIVE patternFrom(_, _, _)
patternFrom(lines, i, j) ==
  IF ~(i < Len(lines) - 1) THEN <<>>
  ELSE IF ~(j <= Min(i + 3, Len(lines))) THEN patternFrom(lines, i + 1, i + 2)
  ELSE LET combined == join(slice(lines, i, j), " ")
       IN  (IF matchesPattern(combined) THEN <<combined>> ELSE <<>>)
             \o patternFrom(lines, i, j + 1)

extractWithPatternMatching(lines) == patternFrom(lines, 0, 1)

\* ------------------------------------------------------------------------
\* enhanced-vision.ts: the scorer
\* ------------------------------------------------------------------------

positionScore(position) == Max(0, 10 - position)

lengthScore(name) ==
  LET words == split(name, " ")
  IN  IF Len(words) = 2 THEN 5
      ELSE IF Len(words) = 3 THEN 4
      ELSE IF Len(words) = 1 /\ Len(name) > 4 THEN 3
      ELSE 0

formatScore(name) ==
  (IF name # "" /\ CharAt(name, 1) \in UpperSet THEN 2 ELSE 0)
  + (IF allIn(name, UpperSet \cup SpaceSet \cup {"&", "-", "'", "."})
       THEN 3 ELSE 0)

businessKeywords ==
  << [word |-> "coffee", points |-> 7],
     [word |-> "food park", points |-> 8],
     [word |-> "coffee shop", points |-> 7],
     [word |-> "restaurant", points |-> 6],
     [word |-> "market", points |-> 5],
     [word |-> "center", points |-> 4],
     [word |-> "plaza", points |-> 4],
     [word |-> "cafe", points |-> 5],
     [word |-> "grill", points |-> 5],
     [word |-> "bar", points |-> 4] >>

\* keywordScore taking the best of the keywords contained (mutant)
keywordScore_bestMatch(name) ==
  LET lowerName == toLowerCase(name)
      hits == { k \in 1..Len(businessKeywords) :
                  includes(lowerName, businessKeywords[k].word) }
  IN  IF hits = {} THEN 0
      ELSE businessKeywords[CHOOSE k \in hits : \A m \in hits :
             businessKeywords[k].points >= businessKeywords[m].points].points

\* the loop over businessKeywords, which breaks at the first match
keywordScore(name) ==
  LET lowerName == toLowerCase(name)
      hits == { k \in 1..Len(businessKeywords) :
                  includes(lowerName, businessKeywords[k].word) }
  IN  IF hits = {} THEN 0
      ELSE businessKeywords[CHOOSE k \in hits : \A m \in hits : k <= m].points

completenessScore(name) ==
  IF Len(name) >= 8 /\ Len(name) <= 25 THEN 3 ELSE 0

penalties(name) ==
  (IF Len(name) < 4 THEN 3 ELSE 0) + (IF Len(name) > 40 THEN 5 ELSE 0)

scoreBusinessName(name, position) ==
  Max(0, positionScore(position) + lengthScore(name) + formatScore(name)
           + keywordScore(name) + completenessScore(name) - penalties(name))

\* ------------------------------------------------------------------------
\* enhanced-vision.ts: deduplication, ranking, the orchestrator
\* A candidate is [name, strategy, score]; the model adds two fields the
\* claims read: position (the firstWordIndex it was scored with) and index
\* (its place in generation order).
\* ------------------------------------------------------------------------

\* isContained testing one direction only (mutant)
isContained_oneWay(existingText, candidateText) ==
  includes(existingText, candidateText)

\* the callback of unique.some(...) on the two lowercased names
isContained(existingText, candidateText) ==
  \/ includes(existingText, candidateText)
  \/ includes(candidateText, existingText)
  \/ existingText = candidateText

\* isDuplicate comparing the names as they are written (mutant)
isDuplicate_caseSensitive(unique, candidate) ==
  \E e \in 1..Len(unique) : isContained(unique[e].name, candidate.name)

\* unique.some(...) for one candidate
isDuplicate(unique, candidate) ==
  \E e \in 1..Len(unique) :
    isContained(toLowerCase(unique[e].name), toLowerCase(candidate.name))

\* the for-of loop of removeSimilarCandidates from the k-th candidate on
RECURSIVE dedupFrom(_, _, _)
dedupFrom(candidates, k, unique) ==
  IF k > Len(candidates) THEN unique
  ELSE dedupFrom(candidates, k + 1,
                 IF isDuplicate(unique, candidates[k])
                   THEN unique ELSE Append(unique, candidates[k]))

\* removeSimilarCandidates whose loop starts at the second candidate (mutant)
removeSimilarCandidates_skipFirst(candidates) == dedupFrom(candidates, 2, <<>>)

removeSimilarCandidates(candidates) == dedupFrom(candidates, 1, <<>>)

\* insertByScore putting c in front of the elements of equal score (mutant)
insertByScore_beforeTies(sorted, c) ==
  LET n == Cardinality({ k \in 1..Len(sorted) : sorted[k].score > c.score })
  IN  SubSeq(sorted, 1, n) \o <<c>> \o SubSeq(sorted, n + 1, Len(sorted))

\* one step of a stable sort by (a, b) => b.score - a.score: c goes behind
\* every element whose score is at least its own
insertByScore(sorted, c) ==
  LET n == Cardinality({ k \in 1..Len(sorted) : sorted[k].score >= c.score })
  IN  SubSeq(sorted, 1, n) \o <<c>> \o SubSeq(sorted, n + 1, Len(sorted))

RECURSIVE sortFrom(_, _, _)
sortFrom(arr, k, sorted) ==
  IF k > Len(arr) THEN sorted
  ELSE sortFrom(arr, k + 1, insertByScore(sorted, arr[k]))

\* sortByScore leaving the list as the deduplicator returned it (mutant)
sortByScore_unsorted(arr) == arr

\* uniqueCandidates.sort((a, b) => b.score - a.score); Array.prototype.sort
\* is stable
sortByScore(arr) == sortFrom(arr, 1, <<>>)

\* candidates.push(...names.map(name => ({ name, strategy, score: 0 })))
tagged(names, strategy) ==
  [k \in 1..Len(names) |-> [name |-> names[k], strategy |-> strategy]]

\* the three pushes onto candidates, in the order of the code
generateCandidates(cleanedLines) ==
  tagged(extractWithBusinessContext(cleanedLines), "context")
    \o tagged(extractWithPositionalWeighting(cleanedLines), "positional")
    \o tagged(extractWithPatternMatching(cleanedLines), "pattern")

\* cleanedLines.indexOf(candidate.name.split(' ')[0])
firstWordIndex(cleanedLines, name) ==
  indexOf(cleanedLines, split(name, " ")[1])

\* the forEach that scores every candidate
scoreCandidates(cleanedLines, cands) ==
  [k \in 1..Len(cands) |->
     LET position == firstWordIndex(cleanedLines, cands[k].name)
     IN  [name |-> cands[k].name,
          strategy |-> cands[k].strategy,
          score |-> scoreBusinessName(cands[k].name, position),
          position |-> position,
          index |-> k]]

\* the candidates of all three strategies, scored
scoredCandidates(cleanedLines) ==
  scoreCandidates(cleanedLines, generateCandidates(cleanedLines))

\* text.split('\n').filter(line => line.trim().length > 0)
nonBlankLines(text) ==
  LET nonBlank(line) == Len(trim(line)) > 0
  IN  SelectSeq(split(text, "\n"), nonBlank)

\* uniqueCandidates.slice(0, 3).map(c => c.name)
topNames(ranked) ==
  LET top == slice(ranked, 0, 3)
  IN  [k \in 1..Len(top) |-> top[k].name]

\* extractBusinessNamesWithContext: clean, generate, score, deduplicate,
\* sort, cut to three
extractBusinessNamesWithContext(text) ==
  LET cleaned == preprocessLines(nonBlankLines(text))
  IN  topNames(sortByScore(removeSimilarCandidates(scoredCandidates(cleaned))))

\* ------------------------------------------------------------------------
\* enhanced-vision.ts: the confidence estimator, in thousandths
\* ------------------------------------------------------------------------

getLevel(score) ==
  IF score > 700 THEN "High"
  ELSE IF score > 500 THEN "Medium"
  ELSE "Low"

\* rawConfidence adding the name bonus for an empty name list too (mutant)
rawConfidence_nameBonusAlways(detections, businessNames) ==
  500
  + (IF detections.count > 5 THEN 100 ELSE 0)
  + (IF detections.count > 10 THEN 100 ELSE 0)
  + (IF Len(businessNames) >= 0 THEN 200 ELSE 0)
  + (IF Len(businessNames) > 1 THEN 100 ELSE 0)
  + (IF countTokens(detections.description) >= 5 THEN 100 ELSE 0)

\* the sum before the clamp; detections is [count, description]
rawConfidence(detections, businessNames) ==
  500
  + (IF detections.count > 5 THEN 100 ELSE 0)
  + (IF detections.count > 10 THEN 100 ELSE 0)
  + (IF Len(businessNames) > 0 THEN 200 ELSE 0)
  + (IF Len(businessNames) > 1 THEN 100 ELSE 0)
  + (IF countTokens(detections.description) >= 5 THEN 100 ELSE 0)

\* finalConfidence without Math.min(0.95, ...) (mutant)
finalConfidenceOf_noClamp(detections, businessNames) ==
  500
  + (IF detections.count > 5 THEN 100 ELSE 0)
  + (IF detections.count > 10 THEN 100 ELSE 0)
  + (IF Len(businessNames) > 0 THEN 200 ELSE 0)
  + (IF Len(businessNames) > 1 THEN 100 ELSE 0)
  + (IF countTokens(detections.description) >= 5 THEN 100 ELSE 0)

finalConfidenceOf(detections, businessNames) ==
  Min(950, rawConfidence(detections, businessNames))

\* calculateSmartConfidence scaling the phone score like the address
\* score (mutant)
calculateSmartConfidence_phoneFactor(detections, businessNames) ==
  LET finalConfidence == Min(950, 500
        + (IF detections.count > 5 THEN 100 ELSE 0)
        + (IF detections.count > 10 THEN 100 ELSE 0)
        + (IF Len(businessNames) > 0 THEN 200 ELSE 0)
        + (IF Len(businessNames) > 1 THEN 100 ELSE 0)
        + (IF countTokens(detections.description) >= 5 THEN 100 ELSE 0))
  IN  [businessName |-> getLevel(finalConfidence),
       address |-> getLevel((finalConfidence * 8) \div 10),
       phone |-> getLevel((finalConfidence * 8) \div 10)]

calculateSmartConfidence(detections, businessNames) ==
  LET finalConfidence == finalConfidenceOf(detections, businessNames)
  IN  [businessName |-> getLevel(finalConfidence),
       address |-> getLevel((finalConfidence * 8) \div 10),
       phone |-> getLevel((finalConfidence * 7) \div 10)]

\* ------------------------------------------------------------------------
\* enhanced-vision.ts: the phone, website and email extractors
\* A regular expression without alternation is a sequence of items, each a
\* character class repeated min to max times (max -1: unbounded), all
\* greedy.  An optional group is unfolded into two sequences, the one with
\* the group first, which is the order in which the engine tries them.
\* ------------------------------------------------------------------------

once(set) == [set |-> set, min |-> 1, max |-> 1]

optional(set) == [set |-> set, min |-> 0, max |-> 1]

repeated(set, min, max) == [set |-> set, min |-> min, max |-> max]

\* the literal characters of word, one item each
literal(word) == [i \in 1..Len(word) |-> once({CharAt(word, i)})]

AlnumSet == UpperSet \cup LowerSet \cup DigitSet

\* the class [-.\s]
SeparatorSet == {"-", "."} \cup SpaceSet

\* the backtracking match of items k.. of pattern at pos, count repetitions
\* of item k being taken: the position after the match, 0 when none
RECURSIVE matchFrom(_, _, _, _, _)
matchFrom(text, pos, pattern, k, count) ==
  IF k > Len(pattern) THEN pos
  ELSE LET item == pattern[k]
           more == IF /\ (item.max < 0 \/ count < item.max)
                      /\ pos <= Len(text)
                      /\ CharAt(text, pos) \in item.set
                     THEN matchFrom(text, pos + 1, pattern, k, count + 1)
                     ELSE 0
       IN  IF more # 0 THEN more
           ELSE IF count >= item.min
             THEN matchFrom(text, pos, pattern, k + 1, 0)
           ELSE 0

\* the first of the sequences k.. of patterns to match at pos
RECURSIVE firstMatch(_, _, _, _)
firstMatch(text, pos, patterns, k) ==
  IF k > Len(patterns) THEN 0
  ELSE LET end == matchFrom(text, pos, patterns[k], 1, 0)
       IN  IF end # 0 THEN end ELSE firstMatch(text, pos, patterns, k + 1)

\* text.match(regex) || [] for a regex with the g flag: the matches from
\* pos on, left to right, without overlap
RECURSIVE matchAll(_, _, _)
matchAll(text, pos, patterns) ==
  IF pos > Len(text) THEN <<>>
  ELSE LET end == firstMatch(text, pos, patterns, 1)
       IN  IF end = 0 THEN matchAll(text, pos + 1, patterns)
           ELSE <<SubSeq(text, pos, end - 1)>> \o matchAll(text, end, patterns)

\* \(?([0-9]{3})\)?[-.\s]?([0-9]{3})[-.\s]?([0-9]{4})
phoneBody ==
  << optional({"("}), repeated(DigitSet, 3, 3), optional({")"}),
     optional(SeparatorSet), repeated(DigitSet, 3, 3),
     optional(SeparatorSet), repeated(DigitSet, 4, 4) >>

\* phoneRegex: the group (?:\+?1[-.\s]?)? taken, then left out
phoneRegex ==
  << <<optional({"+"}), once({"1"}), optional(SeparatorSet)>> \o phoneBody,
     phoneBody >>

\* [a-zA-Z0-9][a-zA-Z0-9-]{1,61}[a-zA-Z0-9]\.[a-zA-Z]{2,}
websiteBody ==
  << once(AlnumSet), repeated(AlnumSet \cup {"-"}, 1, 61), once(AlnumSet),
     once({"."}), repeated(UpperSet \cup LowerSet, 2, 0 - 1) >>

\* https?:\/\/
schemePart == literal("http") \o <<optional({"s"})>> \o literal("://")

\* websiteRegex: each of the groups (?:https?:\/\/)? and (?:www\.)? taken,
\* then left out
websiteRegex ==
  << schemePart \o literal("www.") \o websiteBody,
     schemePart \o websiteBody,
     literal("www.") \o websiteBody,
     websiteBody >>

\* emailRegex: [a-zA-Z0-9._%+-]+@[a-zA-Z0-9.-]+\.[a-zA-Z]{2,}
emailRegex ==
  << << repeated(AlnumSet \cup {".", "_", "%", "+", "-"}, 1, 0 - 1),
        once({"@"}),
        repeated(AlnumSet \cup {".", "-"}, 1, 0 - 1),
        once({"."}),
        repeated(UpperSet \cup LowerSet, 2, 0 - 1) >> >>

extractPhoneNumbers(text) == matchAll(text, 1, phoneRegex)

extractWebsites(text) == matchAll(text, 1, websiteRegex)

extractEmails(text) == matchAll(text, 1, emailRegex)

\* some(x => line.includes(x))
someIncluded(line, matches) ==
  \E m \in 1..Len(matches) : includes(line, matches[m])

\* otherText with the phone numbers left out of the filter (mutant)
otherText_ignoringPhones(fullText, phoneNumbers, websites, emails) ==
  LET keep(line) == /\ Len(trim(line)) > 0
                    /\ ~someIncluded(line, websites)
                    /\ ~someIncluded(line, emails)
  IN  SelectSeq(split(fullText, "\n"), keep)

\* fullText.split('\n').filter(...)
otherText(fullText, phoneNumbers, websites, emails) ==
  LET keep(line) == /\ Len(trim(line)) > 0
                    /\ ~someIncluded(line, phoneNumbers)
                    /\ ~someIncluded(line, websites)
                    /\ ~someIncluded(line, emails)
  IN  SelectSeq(split(fullText, "\n"), keep)

\* ------------------------------------------------------------------------
\* State
\* ------------------------------------------------------------------------

VARIABLES
  \* extractTextWithEnhancedVision (one request)
  pc,                \* "idle", "done" (returned) or "failed" (threw)
  image,             \* the text on the photographed sign
  ocr,               \* what client.textDetection did, once it has answered
  cleanedLines,      \* extractBusinessNamesWithContext: cleanedLines
  candidates,        \* ... candidates after scoring
  uniqueCandidates,  \* ... uniqueCandidates before the sort
  rankedCandidates,  \* ... uniqueCandidates after the sort
  finalConfidence,   \* calculateSmartConfidence: finalConfidence
  result,            \* the ExtractedText returned, or NoResult
  thrown,            \* the message of the Error thrown, or ""
  \* removeSimilarCandidates applied to a candidate list of any shape
  dedupInput,        \* the list given
  dedupOnce,         \* removeSimilarCandidates(dedupInput), or NotApplied
  dedupTwice,        \* removeSimilarCandidates(dedupOnce), or NotApplied
  \* places.ts: one call of searchBusiness, one of getMultiplePlacesOptions
  apiKey,            \* whether process.env.GOOGLE_PLACES_API_KEY is set
  sbPc,              \* "idle", "awaitSearch", "awaitDetails" or "returned"
  sbSearch,          \* the text search response received, or NoResponse
  sbDetails,         \* the details response received, or NoResponse
  sbBestMatch,       \* searchBusiness: bestMatch, or NoPlace
  sbRequests,        \* the requests searchBusiness has issued, in order
  sbReturn,          \* what the promise of searchBusiness settled to
  gmPc,              \* "idle", "awaitSearch" or "returned"
  gmSearch,          \* the text search response received, or NoResponse
  gmRequests,        \* the requests getMultiplePlacesOptions has issued
  gmReturn,          \* what the promise of getMultiplePlacesOptions settled to
  \* BusinessListingGenerator: the component's state
  currentStep,       \* "upload", "processing", "confirmation",
                     \* "location-selection" or "results"
  selectedFile,      \* whether a file is selected (TRUE) or null (FALSE)
  processingProgress,
  businessData,      \* a BusinessData, or NullData
  extractedTextData, \* an ExtractedTextData, or NullText
  confirmedBusinessName,
  locationOptions,
  error,             \* the message shown, "" for null
  isManualInput,
  \* ... and the handler that is between two of its awaits
  running,           \* its name, or "none"
  awaiting,          \* "extract", "process", "timer", or "none"
  closureManual,     \* isManualInput as the handler's closure holds it
  selectedLocation,  \* continueProcessing: its third argument, 0 if absent
  requestBody,       \* the body last sent to /api/process-business
  processResult,     \* continueProcessing: result, while the timer runs
  \* one helper of enhanced-vision.ts applied to lines of any shape
  fnPc,              \* "idle", or "done" once the helper has returned
  ppLines,           \* preprocessLines: lines
  ppResult,          \* preprocessLines: result
  ctxLines,          \* extractWithBusinessContext: lines
  ctxResult,         \* extractWithBusinessContext: candidates
  posLines,          \* extractWithPositionalWeighting: lines
  posResult,         \* extractWithPositionalWeighting: candidates
  patLines,          \* extractWithPatternMatching: lines
  patResult,         \* extractWithPatternMatching: candidates
  scName,            \* scoreBusinessName: name
  scPosition,        \* scoreBusinessName: position
  scResult,          \* scoreBusinessName: finalScore
  \* extractTextWithEnhancedVision, lines 366-387, on a text of any shape
  otFullText,        \* fullText
  otPhoneNumbers,    \* phoneNumbers
  otWebsites,        \* websites
  otEmails,          \* emails
  otResult           \* otherText

evVars ==
  <<pc, image, ocr, cleanedLines, candidates, uniqueCandidates,
    rankedCandidates, finalConfidence, result, thrown>>

ddVars == <<dedupInput, dedupOnce, dedupTwice>>

plVars ==
  <<apiKey, sbPc, sbSearch, sbDetails, sbBestMatch, sbRequests, sbReturn,
    gmPc, gmSearch, gmRequests, gmReturn>>

uiVars ==
  <<currentStep, selectedFile, processingProgress, businessData,
    extractedTextData, confirmedBusinessName, locationOptions, error,
    isManualInput, running, awaiting, closureManual, selectedLocation,
    requestBody, processResult>>

ppVars == <<ppLines, ppResult>>

ctxVars == <<ctxLines, ctxResult>>

posVars == <<posLines, posResult>>

patVars == <<patLines, patResult>>

scVars == <<scName, scPosition, scResult>>

otVars == <<otFullText, otPhoneNumbers, otWebsites, otEmails, otResult>>

fnVars == <<fnPc, ppVars, ctxVars, posVars, patVars, scVars, otVars>>

vars == <<evVars, ddVars, plVars, uiVars, fnVars>>

NoResult == [none |-> TRUE]

NoAnswer == [outcome |-> "pending", count |-> 0, description |-> ""]

\* ------------------------------------------------------------------------
\* The OCR collaborator's answers
\* ------------------------------------------------------------------------

\* the lines an OCR full text is made of
Vocabulary == {"JOES", "Coffee", "Main St", "Bar", "1 2 3 4 5", " Menu"}

Texts ==
  { join(ls, "\n") : ls \in UNION { [1..n -> Vocabulary] : n \in 0..MaxLines } }

\* ------------------------------------------------------------------------
\* extractTextWithEnhancedVision
\* ------------------------------------------------------------------------

EvInit ==
  /\ pc = "idle"
  /\ image \in Texts
  /\ ocr = NoAnswer
  /\ cleanedLines = <<>>
  /\ candidates = <<>>
  /\ uniqueCandidates = <<>>
  /\ rankedCandidates = <<>>
  /\ finalConfidence = 0
  /\ result = NoResult
  /\ thrown = ""

\* the message of the error the try block ends with when textDetection
\* rejects, or resolves with no annotation
errorInTry(outcome) ==
  IF outcome = "resolved" THEN "No text detected in image"
  ELSE "textDetection rejected"

\* the catch block: logs the error and throws a new one
catchBlock(err) == "Failed to extract text from image"

\* extractThrows without the check of detections.length: a resolved answer
\* with no annotation is processed as the empty text (mutant)
extractThrows_noLengthCheck ==
  /\ pc = "idle"
  /\ \E outcome \in {"rejected", "resolved"} :
       /\ ocr' = [outcome |-> outcome, count |-> 0, description |-> ""]
       /\ IF outcome = "rejected"
            THEN /\ pc' = "failed"
                 /\ thrown' = catchBlock(errorInTry(outcome))
                 /\ UNCHANGED <<finalConfidence, result>>
            ELSE /\ pc' = "done"
                 /\ finalConfidence' = finalConfidenceOf(ocr', <<>>)
                 /\ result' =
                      [businessNames |-> <<>>,
                       confidence |-> calculateSmartConfidence(ocr', <<>>)]
                 /\ UNCHANGED thrown
  /\ UNCHANGED <<image, cleanedLines, candidates, uniqueCandidates,
                 rankedCandidates>>
  /\ UNCHANGED <<ddVars, plVars, uiVars, fnVars>>

\* textDetection rejects, or resolves with no annotation: the catch block
\* rethrows every error under one message
extractThrows ==
  /\ pc = "idle"
  /\ \E outcome \in {"rejected", "resolved"} :
       /\ ocr' = [outcome |-> outcome, count |-> 0, description |-> ""]
       /\ thrown' = catchBlock(errorInTry(outcome))
  /\ pc' = "failed"
  /\ UNCHANGED <<image, cleanedLines, candidates, uniqueCandidates,
                 rankedCandidates, finalConfidence, result>>
  /\ UNCHANGED <<ddVars, plVars, uiVars, fnVars>>

\* extractReturns handing the generators lines instead of cleanedLines
\* (mutant)
extractReturns_unfilteredLines ==
  /\ pc = "idle"
  /\ cleanedLines' = preprocessLines(nonBlankLines(image))
  /\ candidates' = scoredCandidates(nonBlankLines(image))
  /\ uniqueCandidates' = removeSimilarCandidates(candidates')
  /\ rankedCandidates' = sortByScore(uniqueCandidates')
  /\ \E n \in 1..MaxDet :
       ocr' = [outcome |-> "resolved", count |-> n, description |-> image]
  /\ finalConfidence' = finalConfidenceOf(ocr', topNames(rankedCandidates'))
  /\ result' =
       [businessNames |-> topNames(rankedCandidates'),
        confidence |->
          calculateSmartConfidence(ocr', topNames(rankedCandidates'))]
  /\ pc' = "done"
  /\ UNCHANGED <<image, thrown>>
  /\ UNCHANGED <<ddVars, plVars, uiVars, fnVars>>

\* textDetection resolves with n >= 1 annotations, the first of which
\* carries the full text.  The statements of extractBusinessNamesWithContext
\* are taken in the order of the code, each intermediate value being kept
\* in its variable.
extractReturns ==
  /\ pc = "idle"
  /\ cleanedLines' = preprocessLines(nonBlankLines(image))
  /\ candidates' = scoredCandidates(cleanedLines')
  /\ uniqueCandidates' = removeSimilarCandidates(candidates')
  /\ rankedCandidates' = sortByScore(uniqueCandidates')
  /\ \E n \in 1..MaxDet :
       ocr' = [outcome |-> "resolved", count |-> n, description |-> image]
  /\ finalConfidence' = finalConfidenceOf(ocr', topNames(rankedCandidates'))
  /\ result' =
       [businessNames |-> topNames(rankedCandidates'),
        confidence |->
          calculateSmartConfidence(ocr', topNames(rankedCandidates'))]
  /\ pc' = "done"
  /\ UNCHANGED <<image, thrown>>
  /\ UNCHANGED <<ddVars, plVars, uiVars, fnVars>>

extractTextWithEnhancedVision == extractThrows \/ extractReturns

\* one request, whose answer is not yet in
EvIdle ==
  /\ pc = "idle"
  /\ image = ""
  /\ ocr = NoAnswer
  /\ cleanedLines = <<>>
  /\ candidates = <<>>
  /\ uniqueCandidates = <<>>
  /\ rankedCandidates = <<>>
  /\ finalConfidence = 0
  /\ result = NoResult
  /\ thrown = ""

\* ------------------------------------------------------------------------
\* removeSimilarCandidates on candidate lists of any shape
\* ------------------------------------------------------------------------

\* the largest number of candidates in such a list
MaxCands == 3

NotApplied == <<[none |-> TRUE]>>

\* names that are equal, equal up to case, contained in one another, or
\* unrelated
DedupNames == {"Bar", "BAR", "Bar Two", "Two", "Main St"}

DedupCandidates == [name : DedupNames, score : {0, 5}]

DdInit ==
  /\ dedupInput \in UNION { [1..n -> DedupCandidates] : n \in 0..MaxCands }
  /\ dedupOnce = NotApplied
  /\ dedupTwice = NotApplied

DdIdle ==
  /\ dedupInput = <<>>
  /\ dedupOnce = NotApplied
  /\ dedupTwice = NotApplied

applyDedup ==
  /\ dedupOnce = NotApplied
  /\ dedupOnce' = removeSimilarCandidates(dedupInput)
  /\ dedupTwice' = NotApplied
  /\ UNCHANGED <<dedupInput, evVars, plVars, uiVars, fnVars>>

applyDedupAgain ==
  /\ dedupOnce # NotApplied
  /\ dedupTwice = NotApplied
  /\ dedupTwice' = removeSimilarCandidates(dedupOnce)
  /\ UNCHANGED <<dedupInput, dedupOnce, evVars, plVars, uiVars, fnVars>>

\* ------------------------------------------------------------------------
\* places.ts: searchBusiness and getMultiplePlacesOptions
\* ------------------------------------------------------------------------

\* a field that is undefined is "" (0 for place_id)
NoPlace ==
  [place_id |-> 0, name |-> "", formatted_address |-> "",
   business_status |-> "", opening_hours |-> "",
   international_phone_number |-> ""]

\* the k-th result of a text search: the fields the provider sends, among
\* them opening_hours, which is none of the fields the functions copy
searchResult(k) ==
  [place_id |-> k, name |-> "Joes", formatted_address |-> <<k, "Main St">>,
   business_status |-> "OPERATIONAL", opening_hours |-> "open_now",
   international_phone_number |-> ""]

\* the result of a details request for a place: the fields asked for, and
\* place_id if the provider sends it although it was not asked for
detailsResult(place, withId) ==
  [place_id |-> IF withId THEN place.place_id ELSE 0,
   name |-> place.name,
   formatted_address |-> place.formatted_address,
   business_status |-> place.business_status,
   opening_hours |-> "weekday_text",
   international_phone_number |-> "+1 555 0100"]

NoResponse ==
  [kind |-> "none", status |-> "", hasResults |-> FALSE, results |-> <<>>,
   result |-> NoPlace]

Statuses == {"OK", "ZERO_RESULTS", "REQUEST_DENIED"}

\* what fetch(searchUrl) and searchResponse.json() can give: a rejected
\* fetch, a response that is not ok, a body json() rejects, or a parsed
\* body with a status and (possibly) a results array
SearchResponses ==
  { [kind |-> k, status |-> "", hasResults |-> FALSE, results |-> <<>>,
     result |-> NoPlace] : k \in {"rejected", "notOk", "badBody"} }
  \cup
  { [kind |-> "parsed", status |-> st, hasResults |-> FALSE,
     results |-> <<>>, result |-> NoPlace] : st \in Statuses }
  \cup
  { [kind |-> "parsed", status |-> st, hasResults |-> TRUE,
     results |-> [k \in 1..n |-> searchResult(k)], result |-> NoPlace] :
       st \in Statuses, n \in 0..MaxResults }

\* what fetch(detailsUrl) and detailsResponse.json() can give for a place;
\* a body that parses but has no usable result counts as "badBody"
DetailsResponses(place) ==
  { [kind |-> k, status |-> "", hasResults |-> FALSE, results |-> <<>>,
     result |-> NoPlace] : k \in {"rejected", "notOk", "badBody"} }
  \cup
  { [kind |-> "parsed", status |-> st, hasResults |-> FALSE,
     results |-> <<>>, result |-> NoPlace] : st \in Statuses \ {"OK"} }
  \cup
  { [kind |-> "parsed", status |-> "OK", hasResults |-> FALSE,
     results |-> <<>>, result |-> detailsResult(place, withId)] :
       withId \in BOOLEAN }

\* how a promise settled
Pending == [kind |-> "pending", place |-> NoPlace, options |-> <<>>]

ReturnsNull == [kind |-> "null", place |-> NoPlace, options |-> <<>>]

ReturnsPlace(p) == [kind |-> "place", place |-> p, options |-> <<>>]

ReturnsOptions(os) == [kind |-> "options", place |-> NoPlace, options |-> os]

Throws == [kind |-> "throws", place |-> NoPlace, options |-> <<>>]

\* the text search found something to go on with
searchSucceeded(r) ==
  /\ r.kind = "parsed"
  /\ r.status = "OK"
  /\ r.hasResults
  /\ Len(r.results) > 0

\* searchBusiness from the answer of the text search to the details
\* request, without the try/catch around it (mutant)
afterSearch_noCatch(r) ==
  IF r.kind \in {"rejected", "badBody"} THEN Throws
  ELSE IF r.kind = "notOk" THEN ReturnsNull
  ELSE IF r.status # "OK" THEN ReturnsNull
  ELSE IF ~r.hasResults \/ Len(r.results) = 0 THEN ReturnsNull
  ELSE Pending

\* searchBusiness from the answer of the text search to the details
\* request: what it returns, or Pending when it goes on
afterSearch(r) ==
  IF r.kind \in {"rejected", "badBody"} THEN ReturnsNull
  ELSE IF r.kind = "notOk" THEN ReturnsNull
  ELSE IF r.status # "OK" THEN ReturnsNull
  ELSE IF ~r.hasResults \/ Len(r.results) = 0 THEN ReturnsNull
  ELSE Pending

\* the object built when the details response is not ok
fallbackResult(bestMatch) ==
  [place_id |-> bestMatch.place_id,
   name |-> bestMatch.name,
   formatted_address |-> bestMatch.formatted_address,
   business_status |-> "",
   opening_hours |-> "",
   international_phone_number |-> ""]

\* searchBusiness from the answer of the details request on
afterDetails(bestMatch, d) ==
  IF d.kind \in {"rejected", "badBody"} THEN ReturnsNull
  ELSE IF d.kind = "notOk" THEN ReturnsPlace(fallbackResult(bestMatch))
  ELSE IF d.status # "OK" THEN ReturnsPlace(bestMatch)
  ELSE ReturnsPlace(d.result)

\* an element of processedOptions
basicFields(r) ==
  [place_id |-> r.place_id,
   name |-> r.name,
   formatted_address |-> r.formatted_address,
   business_status |-> r.business_status,
   opening_hours |-> "",
   international_phone_number |-> ""]

\* optionsAfterSearch cutting the list at 5, as the comment on the slice
\* says (mutant)
optionsAfterSearch_upToFive(r) ==
  IF r.kind \in {"rejected", "badBody"} THEN ReturnsOptions(<<>>)
  ELSE IF r.kind = "notOk" THEN ReturnsOptions(<<>>)
  ELSE IF r.status # "OK" \/ ~r.hasResults \/ Len(r.results) = 0
    THEN ReturnsOptions(<<>>)
  ELSE ReturnsOptions([k \in 1..Len(slice(r.results, 0, 5)) |->
                         basicFields(slice(r.results, 0, 5)[k])])

\* getMultiplePlacesOptions from the answer of the text search on
optionsAfterSearch(r) ==
  IF r.kind \in {"rejected", "badBody"} THEN ReturnsOptions(<<>>)
  ELSE IF r.kind = "notOk" THEN ReturnsOptions(<<>>)
  ELSE IF r.status # "OK" \/ ~r.hasResults \/ Len(r.results) = 0
    THEN ReturnsOptions(<<>>)
  ELSE ReturnsOptions([k \in 1..Len(slice(r.results, 0, 10)) |->
                         basicFields(slice(r.results, 0, 10)[k])])

PlInit ==
  /\ apiKey \in BOOLEAN
  /\ sbPc = "idle"
  /\ sbSearch = NoResponse
  /\ sbDetails = NoResponse
  /\ sbBestMatch = NoPlace
  /\ sbRequests = <<>>
  /\ sbReturn = Pending
  /\ gmPc = "idle"
  /\ gmSearch = NoResponse
  /\ gmRequests = <<>>
  /\ gmReturn = Pending

PlIdle ==
  /\ apiKey = TRUE
  /\ sbPc = "idle"
  /\ sbSearch = NoResponse
  /\ sbDetails = NoResponse
  /\ sbBestMatch = NoPlace
  /\ sbRequests = <<>>
  /\ sbReturn = Pending
  /\ gmPc = "idle"
  /\ gmSearch = NoResponse
  /\ gmRequests = <<>>
  /\ gmReturn = Pending

gmVars == <<gmPc, gmSearch, gmRequests, gmReturn>>

sbVars == <<sbPc, sbSearch, sbDetails, sbBestMatch, sbRequests, sbReturn>>

\* searchBusiness up to its first await: the key check and fetch(searchUrl)
sbCall ==
  /\ sbPc = "idle"
  /\ IF ~apiKey
       THEN /\ sbPc' = "returned"
            /\ sbReturn' = ReturnsNull
            /\ UNCHANGED sbRequests
       ELSE /\ sbPc' = "awaitSearch"
            /\ sbRequests' = Append(sbRequests, "textsearch")
            /\ UNCHANGED sbReturn
  /\ UNCHANGED <<apiKey, sbSearch, sbDetails, sbBestMatch>>
  /\ UNCHANGED <<gmVars, evVars, ddVars, uiVars, fnVars>>

\* sbSearchAnswered sending the text search once more when the fetch was
\* rejected (mutant)
sbSearchAnswered_retries ==
  /\ sbPc = "awaitSearch"
  /\ \E r \in SearchResponses :
       /\ sbSearch' = r
       /\ IF r.kind = "rejected" /\ Len(sbRequests) < 2
            THEN /\ sbRequests' = Append(sbRequests, "textsearch")
                 /\ UNCHANGED <<sbPc, sbBestMatch, sbReturn>>
            ELSE IF afterSearch(r) = Pending
            THEN /\ sbBestMatch' = r.results[1]
                 /\ sbRequests' = Append(sbRequests, "details")
                 /\ sbPc' = "awaitDetails"
                 /\ UNCHANGED sbReturn
            ELSE /\ sbReturn' = afterSearch(r)
                 /\ sbPc' = "returned"
                 /\ UNCHANGED <<sbBestMatch, sbRequests>>
  /\ UNCHANGED <<apiKey, sbDetails>>
  /\ UNCHANGED <<gmVars, evVars, ddVars, uiVars, fnVars>>

\* the text search answers: searchBusiness returns, or picks results[0]
\* and sends fetch(detailsUrl)
sbSearchAnswered ==
  /\ sbPc = "awaitSearch"
  /\ \E r \in SearchResponses :
       /\ sbSearch' = r
       /\ IF afterSearch(r) = Pending
            THEN /\ sbBestMatch' = r.results[1]
                 /\ sbRequests' = Append(sbRequests, "details")
                 /\ sbPc' = "awaitDetails"
                 /\ UNCHANGED sbReturn
            ELSE /\ sbReturn' = afterSearch(r)
                 /\ sbPc' = "returned"
                 /\ UNCHANGED <<sbBestMatch, sbRequests>>
  /\ UNCHANGED <<apiKey, sbDetails>>
  /\ UNCHANGED <<gmVars, evVars, ddVars, uiVars, fnVars>>

\* the details request answers: searchBusiness returns
sbDetailsAnswered ==
  /\ sbPc = "awaitDetails"
  /\ \E d \in DetailsResponses(sbBestMatch) :
       /\ sbDetails' = d
       /\ sbReturn' = afterDetails(sbBestMatch, d)
  /\ sbPc' = "returned"
  /\ UNCHANGED <<apiKey, sbSearch, sbBestMatch, sbRequests>>
  /\ UNCHANGED <<gmVars, evVars, ddVars, uiVars, fnVars>>

searchBusiness == sbCall \/ sbSearchAnswered \/ sbDetailsAnswered

\* getMultiplePlacesOptions up to its first await
gmCall ==
  /\ gmPc = "idle"
  /\ IF ~apiKey
       THEN /\ gmPc' = "returned"
            /\ gmReturn' = ReturnsOptions(<<>>)
            /\ UNCHANGED gmRequests
       ELSE /\ gmPc' = "awaitSearch"
            /\ gmRequests' = Append(gmRequests, "textsearch")
            /\ UNCHANGED gmReturn
  /\ UNCHANGED <<apiKey, gmSearch>>
  /\ UNCHANGED <<sbVars, evVars, ddVars, uiVars, fnVars>>

\* the text search answers: getMultiplePlacesOptions returns
gmSearchAnswered ==
  /\ gmPc = "awaitSearch"
  /\ \E r \in SearchResponses :
       /\ gmSearch' = r
       /\ gmReturn' = optionsAfterSearch(r)
  /\ gmPc' = "returned"
  /\ UNCHANGED <<apiKey, gmRequests>>
  /\ UNCHANGED <<sbVars, evVars, ddVars, uiVars, fnVars>>

getMultiplePlacesOptions == gmCall \/ gmSearchAnswered

\* ------------------------------------------------------------------------
\* BusinessListingGenerator.tsx: the screen workflow
\* ------------------------------------------------------------------------

\* the longest businessNames list the extraction endpoint answers with
MaxNames == 2

\* the longest locationOptions list the processing endpoint answers with
MaxOptions == 2

\* names a text extraction may find or a user may type
UiNames == {"Joes", "My Shop", "Big Shop Inc"}

Levels == {"High", "Medium", "Low"}

NullText ==
  [isNull |-> TRUE, businessNames |-> <<>>,
   confidence |-> [businessName |-> "Low", address |-> "Low", phone |-> "Low"]]

\* the text records /api/extract-text answers with
ExtractedTexts ==
  { [isNull |-> FALSE, businessNames |-> names,
     confidence |-> [businessName |-> level, address |-> "Low",
                     phone |-> "Low"]] :
      names \in UNION { [1..n -> UiNames] : n \in 0..MaxNames },
      level \in Levels }

\* handleManualSubmit: mockExtractedText
mockExtractedText(businessName) ==
  [isNull |-> FALSE, businessNames |-> <<businessName>>,
   confidence |-> [businessName |-> "High", address |-> "Low",
                   phone |-> "Low"]]

NullData == [isNull |-> TRUE, listing |-> ""]

BusinessDatas ==
  {NullData} \cup
  { [isNull |-> FALSE, listing |-> l] : l \in {"listing A", "listing B"} }

NoBody == [isNull |-> TRUE, businessNames |-> <<>>, selectedLocation |-> 0]

\* an answer of fetch and response.json(): a rejected fetch, a response
\* that is not ok (its body's error field, "" if it has none), a body
\* json() rejects, or an ok response with its payload
failureResponses ==
  { [kind |-> k, error |-> e] :
      k \in {"rejected", "badBody"}, e \in {""} }
  \cup { [kind |-> "notOk", error |-> e] : e \in {"", "server says no"} }

ExtractResponses ==
  { [kind |-> f.kind, error |-> f.error, text |-> NullText] :
      f \in failureResponses }
  \cup { [kind |-> "ok", error |-> "", text |-> t] : t \in ExtractedTexts }

\* locationOptions of a ProcessBusinessResponse: absent, or a list
LocationOptionLists ==
  { [present |-> FALSE, list |-> <<>>] } \cup
  { [present |-> TRUE, list |-> [k \in 1..n |-> k]] : n \in 0..MaxOptions }

NoProcessResult ==
  [kind |-> "none", error |-> "", businessData |-> NullData,
   hasMultipleLocations |-> FALSE,
   locationOptions |-> [present |-> FALSE, list |-> <<>>]]

ProcessResponses ==
  { [kind |-> f.kind, error |-> f.error, businessData |-> NullData,
     hasMultipleLocations |-> FALSE,
     locationOptions |-> [present |-> FALSE, list |-> <<>>]] :
      f \in failureResponses }
  \cup
  { [kind |-> "ok", error |-> "", businessData |-> d,
     hasMultipleLocations |-> h, locationOptions |-> o] :
      d \in BusinessDatas, h \in BOOLEAN, o \in LocationOptionLists }

\* the message of the error a handler catches for a failed request
errorMessage(response, fallback) ==
  CASE response.kind = "rejected" -> "Failed to fetch"
    [] response.kind = "badBody" -> "Unexpected token in JSON"
    [] response.kind = "notOk" ->
         IF response.error # "" THEN response.error ELSE fallback

genericNames == {"business", "company", "store", "shop"}

\* shouldRequestConfirmation without the test of the name's length (mutant)
shouldRequestConfirmation_anyLength(textData) ==
  IF textData.confidence.businessName = "Low" THEN TRUE
  ELSE IF Len(textData.businessNames) = 0 THEN TRUE
  ELSE \E generic \in genericNames :
         includes(toLowerCase(textData.businessNames[1]), generic)

shouldRequestConfirmation(textData) ==
  IF textData.confidence.businessName = "Low" THEN TRUE
  ELSE IF Len(textData.businessNames) = 0 THEN TRUE
  ELSE LET firstBusinessName == toLowerCase(textData.businessNames[1])
       IN  /\ \E generic \in genericNames :
                includes(firstBusinessName, generic)
           /\ Len(firstBusinessName) < 10

\* names.filter(name => name !== businessName)
namesOtherThan(names, businessName) ==
  SelectSeq(names, LAMBDA name : name # businessName)

\* [businessName, ...names.filter(name => name !== businessName)]
withNameFirst(names, businessName) ==
  <<businessName>> \o namesOtherThan(names, businessName)

\* continueProcessing: requestBody
requestBodyOf(textData, businessName, location) ==
  [isNull |-> FALSE,
   businessNames |-> withNameFirst(textData.businessNames, businessName),
   selectedLocation |-> location]

\* continueProcessing: targetProgress
targetProgress(manual) == IF manual THEN 50 ELSE 66

\* names[0], which is undefined for an empty list
firstName(names) == IF Len(names) > 0 THEN names[1] ELSE "undefined"

\* the component as mounted: useState's initial values, no handler running
UiInit ==
  /\ currentStep = "upload"
  /\ selectedFile = FALSE
  /\ processingProgress = 0
  /\ businessData = NullData
  /\ extractedTextData = NullText
  /\ confirmedBusinessName = ""
  /\ locationOptions = <<>>
  /\ error = ""
  /\ isManualInput = FALSE
  /\ running = "none"
  /\ awaiting = "none"
  /\ closureManual = FALSE
  /\ selectedLocation = 0
  /\ requestBody = NoBody
  /\ processResult = NoProcessResult

otherVars == <<evVars, ddVars, plVars, fnVars>>

\* a handler returns (or throws into its caller's catch, which returns)
handlerEnds ==
  /\ running' = "none"
  /\ awaiting' = "none"
  /\ closureManual' = FALSE
  /\ selectedLocation' = 0
  /\ processResult' = NoProcessResult

\* no handler is between two awaits, none starts
noHandler ==
  /\ running = "none"
  /\ UNCHANGED <<running, awaiting, closureManual, selectedLocation,
                 processResult>>

\* continueProcessing up to its fetch, called by handler with these
\* arguments from a render whose isManualInput is manual
continueProcessingStarts(handler, manual, textData, businessName, location) ==
  /\ processingProgress' = targetProgress(manual)
  /\ requestBody' = requestBodyOf(textData, businessName, location)
  /\ selectedLocation' = location
  /\ running' = handler
  /\ awaiting' = "process"
  /\ closureManual' = manual
  /\ UNCHANGED processResult

handleFileSelect ==
  /\ currentStep = "upload"
  /\ noHandler
  /\ \E file \in BOOLEAN : selectedFile' = file
  /\ error' = ""
  /\ isManualInput' = FALSE
  /\ UNCHANGED <<currentStep, processingProgress, businessData,
                 extractedTextData, confirmedBusinessName, locationOptions,
                 requestBody>>
  /\ UNCHANGED otherVars

handleManualSubmit ==
  /\ currentStep = "upload"
  /\ running = "none"
  /\ \E businessName \in UiNames :
       /\ extractedTextData' = mockExtractedText(businessName)
       /\ confirmedBusinessName' = businessName
       /\ continueProcessingStarts("handleManualSubmit", isManualInput,
            mockExtractedText(businessName), businessName, 0)
  /\ isManualInput' = TRUE
  /\ currentStep' = "processing"
  /\ error' = ""
  /\ UNCHANGED <<selectedFile, businessData, locationOptions>>
  /\ UNCHANGED otherVars

\* processImage up to its fetch of /api/extract-text
processImage ==
  /\ currentStep = "upload"
  /\ running = "none"
  /\ selectedFile
  /\ isManualInput' = FALSE
  /\ currentStep' = "processing"
  /\ processingProgress' = 33
  /\ error' = ""
  /\ running' = "processImage"
  /\ awaiting' = "extract"
  /\ closureManual' = isManualInput
  /\ UNCHANGED <<selectedFile, businessData, extractedTextData,
                 confirmedBusinessName, locationOptions, selectedLocation,
                 requestBody, processResult>>
  /\ UNCHANGED otherVars

\* /api/extract-text answers: processImage fails, asks for confirmation or
\* goes on into continueProcessing
extractAnswered ==
  /\ awaiting = "extract"
  /\ \E response \in ExtractResponses :
       IF response.kind # "ok"
         THEN /\ error' = errorMessage(response,
                            "Failed to extract text from image")
              /\ currentStep' = "upload"
              /\ processingProgress' = 0
              /\ handlerEnds
              /\ UNCHANGED <<extractedTextData, requestBody>>
         ELSE /\ extractedTextData' = response.text
              /\ IF shouldRequestConfirmation(response.text)
                   THEN /\ currentStep' = "confirmation"
                        /\ processingProgress' = 0
                        /\ handlerEnds
                        /\ UNCHANGED <<error, requestBody>>
                   ELSE /\ continueProcessingStarts("processImage",
                             closureManual, response.text,
                             firstName(response.text.businessNames), 0)
                        /\ UNCHANGED <<currentStep, error>>
  /\ UNCHANGED <<selectedFile, businessData, confirmedBusinessName,
                 locationOptions, isManualInput>>
  /\ UNCHANGED otherVars

\* the names the confirmation screen can hand to onConfirm
ConfirmableNames == UiNames \cup {"Joes Diner"}

handleBusinessNameConfirmation ==
  /\ currentStep = "confirmation"
  /\ running = "none"
  /\ ~extractedTextData.isNull
  /\ \E businessName \in ConfirmableNames :
       /\ confirmedBusinessName' = businessName
       /\ continueProcessingStarts("handleBusinessNameConfirmation",
            isManualInput,
            [extractedTextData EXCEPT
               !.businessNames = withNameFirst(@, businessName)],
            businessName, 0)
  /\ currentStep' = "processing"
  /\ UNCHANGED <<selectedFile, businessData, extractedTextData,
                 locationOptions, error, isManualInput>>
  /\ UNCHANGED otherVars

\* stepOnError going back to the upload after every failure (mutant)
stepOnError_alwaysUpload(handler) == "upload"

\* the step the catch block of a handler goes back to
stepOnError(handler) ==
  CASE handler = "handleBusinessNameConfirmation" -> "confirmation"
    [] handler = "handleLocationSelection" -> "location-selection"
    [] OTHER -> "upload"

\* processAnswered asking for a location whether or not one was selected
\* (mutant)
processAnswered_ignoresSelection ==
  /\ awaiting = "process"
  /\ \E response \in ProcessResponses :
       IF response.kind # "ok"
         THEN /\ error' = errorMessage(response,
                            "Failed to process business information")
              /\ currentStep' = stepOnError(running)
              /\ processingProgress' =
                   (IF stepOnError(running) = "upload"
                      THEN 0 ELSE processingProgress)
              /\ handlerEnds
              /\ UNCHANGED <<businessData, locationOptions>>
         ELSE IF /\ response.hasMultipleLocations
                 /\ response.locationOptions.present
           THEN /\ locationOptions' = response.locationOptions.list
                /\ businessData' = response.businessData
                /\ currentStep' = "location-selection"
                /\ processingProgress' = 0
                /\ handlerEnds
                /\ UNCHANGED error
           ELSE /\ processingProgress' = 100
                /\ processResult' = response
                /\ awaiting' = "timer"
                /\ UNCHANGED <<running, closureManual, selectedLocation,
                               currentStep, businessData, locationOptions,
                               error>>
  /\ UNCHANGED <<selectedFile, extractedTextData, confirmedBusinessName,
                 isManualInput, requestBody>>
  /\ UNCHANGED otherVars

\* /api/process-business answers: continueProcessing throws into the
\* handler's catch, asks for a location, or waits 500 ms before the results
processAnswered ==
  /\ awaiting = "process"
  /\ \E response \in ProcessResponses :
       IF response.kind # "ok"
         THEN /\ error' = errorMessage(response,
                            "Failed to process business information")
              /\ currentStep' = stepOnError(running)
              /\ processingProgress' =
                   (IF stepOnError(running) = "upload"
                      THEN 0 ELSE processingProgress)
              /\ handlerEnds
              /\ UNCHANGED <<businessData, locationOptions>>
         ELSE IF /\ response.hasMultipleLocations
                 /\ selectedLocation = 0
                 /\ response.locationOptions.present
           THEN /\ locationOptions' = response.locationOptions.list
                /\ businessData' = response.businessData
                /\ currentStep' = "location-selection"
                /\ processingProgress' = 0
                /\ handlerEnds
                /\ UNCHANGED error
           ELSE /\ processingProgress' = 100
                /\ processResult' = response
                /\ awaiting' = "timer"
                /\ UNCHANGED <<running, closureManual, selectedLocation,
                               currentStep, businessData, locationOptions,
                               error>>
  /\ UNCHANGED <<selectedFile, extractedTextData, confirmedBusinessName,
                 isManualInput, requestBody>>
  /\ UNCHANGED otherVars

\* timerFired storing the data without showing the results (mutant)
timerFired_keepsStep ==
  /\ awaiting = "timer"
  /\ businessData' = processResult.businessData
  /\ handlerEnds
  /\ UNCHANGED <<currentStep, selectedFile, processingProgress,
                 extractedTextData, confirmedBusinessName, locationOptions,
                 error, isManualInput, requestBody>>
  /\ UNCHANGED otherVars

\* the 500 ms timer of continueProcessing fires: the results are shown
timerFired ==
  /\ awaiting = "timer"
  /\ businessData' = processResult.businessData
  /\ currentStep' = "results"
  /\ handlerEnds
  /\ UNCHANGED <<selectedFile, processingProgress, extractedTextData,
                 confirmedBusinessName, locationOptions, error,
                 isManualInput, requestBody>>
  /\ UNCHANGED otherVars

\* the location selector is on screen
locationSelectorShown ==
  /\ currentStep = "location-selection"
  /\ Len(locationOptions) > 0

handleLocationSelection ==
  /\ locationSelectorShown
  /\ running = "none"
  /\ ~extractedTextData.isNull
  /\ \E k \in 1..Len(locationOptions) :
       continueProcessingStarts("handleLocationSelection", isManualInput,
         extractedTextData,
         IF confirmedBusinessName # "" THEN confirmedBusinessName
         ELSE firstName(extractedTextData.businessNames),
         locationOptions[k])
  /\ currentStep' = "processing"
  /\ UNCHANGED <<selectedFile, businessData, extractedTextData,
                 confirmedBusinessName, locationOptions, error,
                 isManualInput>>
  /\ UNCHANGED otherVars

handleLocationDismiss ==
  /\ locationSelectorShown
  /\ noHandler
  /\ IF ~businessData.isNull
       THEN /\ currentStep' = "results"
            /\ UNCHANGED error
       ELSE /\ error' = "No business data available. Please try again."
            /\ currentStep' = "upload"
  /\ UNCHANGED <<selectedFile, processingProgress, businessData,
                 extractedTextData, confirmedBusinessName, locationOptions,
                 isManualInput, requestBody>>
  /\ UNCHANGED otherVars

handleRetryFromConfirmation ==
  /\ currentStep = "confirmation"
  /\ ~extractedTextData.isNull
  /\ noHandler
  /\ currentStep' = "upload"
  /\ extractedTextData' = NullText
  /\ confirmedBusinessName' = ""
  /\ processingProgress' = 0
  /\ locationOptions' = <<>>
  /\ isManualInput' = FALSE
  /\ UNCHANGED <<selectedFile, businessData, error, requestBody>>
  /\ UNCHANGED otherVars

\* handleRetryFromLocationSelection going back to the name confirmation
\* instead of the upload (mutant)
handleRetryFromLocationSelection_toConfirmation ==
  /\ locationSelectorShown
  /\ noHandler
  /\ currentStep' = "confirmation"
  /\ confirmedBusinessName' = ""
  /\ locationOptions' = <<>>
  /\ businessData' = NullData
  /\ processingProgress' = 0
  /\ isManualInput' = FALSE
  /\ UNCHANGED <<selectedFile, extractedTextData, error, requestBody>>
  /\ UNCHANGED otherVars

handleRetryFromLocationSelection ==
  /\ locationSelectorShown
  /\ noHandler
  /\ currentStep' = "upload"
  /\ extractedTextData' = NullText
  /\ confirmedBusinessName' = ""
  /\ locationOptions' = <<>>
  /\ businessData' = NullData
  /\ processingProgress' = 0
  /\ isManualInput' = FALSE
  /\ UNCHANGED <<selectedFile, error, requestBody>>
  /\ UNCHANGED otherVars

\* onReset of the results screen
reset ==
  /\ currentStep = "results"
  /\ ~businessData.isNull
  /\ noHandler
  /\ currentStep' = "upload"
  /\ selectedFile' = FALSE
  /\ businessData' = NullData
  /\ extractedTextData' = NullText
  /\ confirmedBusinessName' = ""
  /\ locationOptions' = <<>>
  /\ error' = ""
  /\ processingProgress' = 0
  /\ isManualInput' = FALSE
  /\ UNCHANGED requestBody
  /\ UNCHANGED otherVars

\* ------------------------------------------------------------------------
\* preprocessLines and extractWithBusinessContext on lines of any shape
\* ------------------------------------------------------------------------

\* the longest list of raw lines given to preprocessLines
MaxRaw == 2

\* raw lines: kept ones, and one or more for every discard reason
RawLines ==
  {"Joes", " Bar ", "Menus", " Menu", "OPEN", "a", "&", "-", "", "  ",
   "WWW.joes.co", "Http://joes.co", "joe@joes.co", "42", "12-34"}

\* the longest list of cleaned lines given to extractWithBusinessContext
MaxContextLines == 5

\* cleaned lines: the two words of a two-word keyword group, neither of
\* which is a keyword alone, a line matching two groups, and two long
\* lines (24 and 25 characters)
ContextLines ==
  {"Food", "Park", "Coffee Shop", "Market Hall Number Seven",
   "Market Hall Number Eleven"}

\* the longest list of cleaned lines given to extractWithPositionalWeighting
MaxPosLines == 7

\* cleaned lines of 3, 4 and 20 characters
PositionalLines == {"Bar", "Joes", "Grand Central Market"}

\* the longest list of cleaned lines given to extractWithPatternMatching
MaxPatLines == 4

\* cleaned lines: a Proper-Case word, an ALL-CAPS word, a line that is a
\* Proper-Case pair by itself and a Proper-Case word of 18 characters
PatternLines == {"Joes", "JOES", "Joes Bar", "Grandcentralmarket"}

\* the largest position given to scoreBusinessName
MaxPosition == 12

\* names: three words holding two keywords, a keyword pair, a short
\* word in small letters, capitals, a plain word, more than 40 characters
ScoreNames ==
  {"Coffee Food Park", "Food Park", "ab", "JOES BAR", "Joes",
   "The Grand Central Market Restaurant And Grill"}

\* positions: what indexOf returns, -1 included
ScorePositions == (0 - 1)..MaxPosition

\* the largest number of lines of a full text
MaxTextLines == 3

\* lines of a full text: plain, with a phone number, a website, an email
\* address, the two halves of a phone number broken over lines, blank
TextLines ==
  {"Joes Bar", "Call 555-123-4567", "www.joes.co", "joe@joes.co", "555",
   "123 4567", "", "  "}

FullTexts ==
  { join(ls, "\n") :
      ls \in UNION { [1..n -> TextLines] : n \in 0..MaxTextLines } }

PpIdle == ppLines = <<>> /\ ppResult = <<>>

CtxIdle == ctxLines = <<>> /\ ctxResult = <<>>

PosIdle == posLines = <<>> /\ posResult = <<>>

PatIdle == patLines = <<>> /\ patResult = <<>>

ScIdle == scName = "" /\ scPosition = 0 /\ scResult = 0

OtIdle ==
  /\ otFullText = ""
  /\ otPhoneNumbers = <<>>
  /\ otWebsites = <<>>
  /\ otEmails = <<>>
  /\ otResult = <<>>

FnIdle ==
  /\ fnPc = "idle"
  /\ PpIdle /\ CtxIdle /\ PosIdle /\ PatIdle /\ ScIdle /\ OtIdle

PpInit ==
  /\ fnPc = "idle"
  /\ ppLines \in UNION { [1..n -> RawLines] : n \in 0..MaxRaw }
  /\ ppResult = <<>>
  /\ CtxIdle /\ PosIdle /\ PatIdle /\ ScIdle /\ OtIdle

CtxInit ==
  /\ fnPc = "idle"
  /\ ctxLines \in UNION { [1..n -> ContextLines] : n \in 0..MaxContextLines }
  /\ ctxResult = <<>>
  /\ PpIdle /\ PosIdle /\ PatIdle /\ ScIdle /\ OtIdle

PosInit ==
  /\ fnPc = "idle"
  /\ posLines \in UNION { [1..n -> PositionalLines] : n \in 0..MaxPosLines }
  /\ posResult = <<>>
  /\ PpIdle /\ CtxIdle /\ PatIdle /\ ScIdle /\ OtIdle

PatInit ==
  /\ fnPc = "idle"
  /\ patLines \in UNION { [1..n -> PatternLines] : n \in 0..MaxPatLines }
  /\ patResult = <<>>
  /\ PpIdle /\ CtxIdle /\ PosIdle /\ ScIdle /\ OtIdle

ScInit ==
  /\ fnPc = "idle"
  /\ scName \in ScoreNames
  /\ scPosition \in ScorePositions
  /\ scResult = 0
  /\ PpIdle /\ CtxIdle /\ PosIdle /\ PatIdle /\ OtIdle

OtInit ==
  /\ fnPc = "idle"
  /\ otFullText \in FullTexts
  /\ otPhoneNumbers = <<>>
  /\ otWebsites = <<>>
  /\ otEmails = <<>>
  /\ otResult = <<>>
  /\ PpIdle /\ CtxIdle /\ PosIdle /\ PatIdle /\ ScIdle

applyPreprocessLines ==
  /\ fnPc = "idle"
  /\ ppResult' = preprocessLines(ppLines)
  /\ fnPc' = "done"
  /\ UNCHANGED <<ppLines, ctxVars, posVars, patVars, scVars, otVars>>
  /\ UNCHANGED <<evVars, ddVars, plVars, uiVars>>

applyBusinessContext ==
  /\ fnPc = "idle"
  /\ ctxResult' = extractWithBusinessContext(ctxLines)
  /\ fnPc' = "done"
  /\ UNCHANGED <<ctxLines, ppVars, posVars, patVars, scVars, otVars>>
  /\ UNCHANGED <<evVars, ddVars, plVars, uiVars>>

applyPositionalWeighting ==
  /\ fnPc = "idle"
  /\ posResult' = extractWithPositionalWeighting(posLines)
  /\ fnPc' = "done"
  /\ UNCHANGED <<posLines, ppVars, ctxVars, patVars, scVars, otVars>>
  /\ UNCHANGED <<evVars, ddVars, plVars, uiVars>>

applyPatternMatching ==
  /\ fnPc = "idle"
  /\ patResult' = extractWithPatternMatching(patLines)
  /\ fnPc' = "done"
  /\ UNCHANGED <<patLines, ppVars, ctxVars, posVars, scVars, otVars>>
  /\ UNCHANGED <<evVars, ddVars, plVars, uiVars>>

applyScoreBusinessName ==
  /\ fnPc = "idle"
  /\ scResult' = scoreBusinessName(scName, scPosition)
  /\ fnPc' = "done"
  /\ UNCHANGED <<scName, scPosition, ppVars, ctxVars, posVars, patVars,
                 otVars>>
  /\ UNCHANGED <<evVars, ddVars, plVars, uiVars>>

\* lines 366-368 and 382-387 of extractTextWithEnhancedVision
applyOtherText ==
  /\ fnPc = "idle"
  /\ otPhoneNumbers' = extractPhoneNumbers(otFullText)
  /\ otWebsites' = extractWebsites(otFullText)
  /\ otEmails' = extractEmails(otFullText)
  /\ otResult' = otherText(otFullText, otPhoneNumbers', otWebsites', otEmails')
  /\ fnPc' = "done"
  /\ UNCHANGED <<otFullText, ppVars, ctxVars, posVars, patVars, scVars>>
  /\ UNCHANGED <<evVars, ddVars, plVars, uiVars>>

\* ------------------------------------------------------------------------
\* Specifications
\* ------------------------------------------------------------------------

\* one text extraction request
Init == EvInit /\ DdIdle /\ PlIdle /\ UiInit /\ FnIdle

Next == extractTextWithEnhancedVision

Spec == Init /\ [][Next]_vars

\* the deduplicator alone
InitDedup == EvIdle /\ DdInit /\ PlIdle /\ UiInit /\ FnIdle

NextDedup == applyDedup \/ applyDedupAgain

SpecDedup == InitDedup /\ [][NextDedup]_vars

\* one call of each function of places.ts
InitPlaces == EvIdle /\ DdIdle /\ PlInit /\ UiInit /\ FnIdle

NextPlaces == searchBusiness \/ getMultiplePlacesOptions

SpecPlaces == InitPlaces /\ [][NextPlaces]_vars

\* the component, from mount on, under every user action and server answer
InitUi == EvIdle /\ DdIdle /\ PlIdle /\ UiInit /\ FnIdle

NextUi ==
  \/ handleFileSelect
  \/ handleManualSubmit
  \/ processImage
  \/ extractAnswered
  \/ handleBusinessNameConfirmation
  \/ processAnswered
  \/ timerFired
  \/ handleLocationSelection
  \/ handleLocationDismiss
  \/ handleRetryFromConfirmation
  \/ handleRetryFromLocationSelection
  \/ reset

SpecUi == InitUi /\ [][NextUi]_vars

\* the same, every request being answered and the 500 ms timer firing
\* in the end
SpecUiLive ==
  /\ InitUi
  /\ [][NextUi]_vars
  /\ WF_vars(extractAnswered)
  /\ WF_vars(processAnswered)
  /\ WF_vars(timerFired)

\* preprocessLines alone
InitPreprocess == EvIdle /\ DdIdle /\ PlIdle /\ UiInit /\ PpInit

NextPreprocess == applyPreprocessLines

SpecPreprocess == InitPreprocess /\ [][NextPreprocess]_vars

\* extractWithBusinessContext alone
InitContext == EvIdle /\ DdIdle /\ PlIdle /\ UiInit /\ CtxInit

NextContext == applyBusinessContext

SpecContext == InitContext /\ [][NextContext]_vars

\* extractWithPositionalWeighting alone
InitPositional == EvIdle /\ DdIdle /\ PlIdle /\ UiInit /\ PosInit

NextPositional == applyPositionalWeighting

SpecPositional == InitPositional /\ [][NextPositional]_vars

\* extractWithPatternMatching alone
InitPattern == EvIdle /\ DdIdle /\ PlIdle /\ UiInit /\ PatInit

NextPattern == applyPatternMatching

SpecPattern == InitPattern /\ [][NextPattern]_vars

\* scoreBusinessName alone
InitScore == EvIdle /\ DdIdle /\ PlIdle /\ UiInit /\ ScInit

NextScore == applyScoreBusinessName

SpecScore == InitScore /\ [][NextScore]_vars

\* the otherText filter alone
InitOtherText == EvIdle /\ DdIdle /\ PlIdle /\ UiInit /\ OtInit

NextOtherText == applyOtherText

SpecOtherText == InitOtherText /\ [][NextOtherText]_vars

\* ------------------------------------------------------------------------
\* Claims about the name extraction and the confidence estimator (Spec)
\* ------------------------------------------------------------------------

businessNames == result.businessNames

\* C1: the list returned by extractBusinessNamesWithContext has at most 3
\* entries, and for every pair of distinct entries neither lowercased text
\* is a substring of the other.
C1_AtMostThreeNoSubstring ==
  pc = "done" =>
    /\ Len(businessNames) <= 3
    /\ \A a, b \in 1..Len(businessNames) :
         a # b => ~includes(toLowerCase(businessNames[a]),
                            toLowerCase(businessNames[b]))

\* C1 witness: more than three candidates survived deduplication, which
\* dropped some, and three names were returned.
C1_Witness ==
  /\ pc = "done"
  /\ Len(uniqueCandidates) > 3
  /\ Len(uniqueCandidates) < Len(candidates)
  /\ Len(businessNames) = 3

\* a before b in the ranking: higher score, or equal score and generated
\* earlier
ranksBefore(a, b) ==
  \/ a.score > b.score
  \/ a.score = b.score /\ a.index < b.index

\* the deduplicated candidate a returned name belongs to
candidateOf(name) ==
  uniqueCandidates[CHOOSE i \in 1..Len(uniqueCandidates) :
                     uniqueCandidates[i].name = name]

\* C2: the returned businessNames are the first (at most three)
\* deduplicated candidates in the order of non-increasing score, candidates
\* of equal score standing in generation order.
C2_RankedByScoreStable ==
  pc = "done" =>
    /\ Len(businessNames) = Min(3, Len(uniqueCandidates))
    /\ \A k \in 1..Len(businessNames) :
         \E i \in 1..Len(uniqueCandidates) :
           uniqueCandidates[i].name = businessNames[k]
    /\ \A k \in 1..(Len(businessNames) - 1) :
         ranksBefore(candidateOf(businessNames[k]),
                     candidateOf(businessNames[k + 1]))
    /\ \A i \in 1..Len(uniqueCandidates) :
         (\A k \in 1..Len(businessNames) :
            businessNames[k] # uniqueCandidates[i].name)
         => \A k \in 1..Len(businessNames) :
              ranksBefore(candidateOf(businessNames[k]), uniqueCandidates[i])

\* C2 witness: three names of which the first scores higher than the second
\* and the second ties with the third.
C2_Witness ==
  /\ pc = "done"
  /\ Len(businessNames) = 3
  /\ candidateOf(businessNames[1]).score > candidateOf(businessNames[2]).score
  /\ candidateOf(businessNames[2]).score = candidateOf(businessNames[3]).score

\* C3 (as claimed): a candidate whose first word is no element of the
\* cleaned line list is scored with position 0, and no candidate's position
\* component exceeds 10.
C3_PositionTreatedAsZero ==
  pc = "done" =>
    \A k \in 1..Len(candidates) :
      LET firstWord == split(candidates[k].name, " ")[1]
      IN  /\ (\A i \in 1..Len(cleanedLines) : cleanedLines[i] # firstWord)
               => candidates[k].position = 0
          /\ positionScore(candidates[k].position) <= 10

\* the score a level of the result was computed from, in ten-thousandths
scaledScore(field) ==
  CASE field = "businessName" -> finalConfidence * 10
    [] field = "address" -> finalConfidence * 8
    [] field = "phone" -> finalConfidence * 7

\* C4: the composite confidence lies in [0.5, 0.95], and a level is High
\* only if its score > 0.7, Medium only if 0.5 < score <= 0.7, Low only if
\* score <= 0.5.
C4_ConfidenceRangeAndLevels ==
  pc = "done" =>
    /\ finalConfidence >= 500
    /\ finalConfidence <= 950
    /\ \A field \in {"businessName", "address", "phone"} :
         /\ result.confidence[field] \in {"High", "Medium", "Low"}
         /\ result.confidence[field] = "High" => scaledScore(field) > 7000
         /\ result.confidence[field] = "Medium" =>
              scaledScore(field) > 5000 /\ scaledScore(field) <= 7000
         /\ result.confidence[field] = "Low" => scaledScore(field) <= 5000

\* C4 witness: every bonus applies, the sum 1.0 is clamped, and the three
\* levels differ.
C4_Witness ==
  /\ pc = "done"
  /\ ocr.count > 10
  /\ Len(businessNames) = 3
  /\ countTokens(ocr.description) >= 5
  /\ finalConfidence = 950
  /\ result.confidence =
       [businessName |-> "High", address |-> "High", phone |-> "Medium"]

\* C5 (as claimed): with zero business names confidence.businessName is
\* Low, for every detection count and every token count.
C5_NoNamesAlwaysLow ==
  (pc = "done" /\ Len(businessNames) = 0)
    => result.confidence.businessName = "Low"

\* C5 (amended): with zero business names confidence.businessName is Low
\* exactly when there are at most 5 detections and fewer than 5 tokens.
C5_NoNamesLowIffFewDetectionsAndTokens ==
  (pc = "done" /\ Len(businessNames) = 0)
    => (result.confidence.businessName = "Low"
          <=> (ocr.count <= 5 /\ countTokens(ocr.description) < 5))

\* C5 witness: every line of a non-blank text was filtered out as noise,
\* no name was produced and the level is Low.
C5_Witness ==
  /\ pc = "done"
  /\ nonBlankLines(image) # <<>>
  /\ cleanedLines = <<>>
  /\ Len(businessNames) = 0
  /\ result.confidence.businessName = "Low"

\* C6: when the cleaned line list is empty, no generator yields a candidate
\* and an empty businessNames list is returned; the request does not fail.
C6_EmptyCleanedLinesGiveNoNames ==
  /\ (pc = "done" /\ cleanedLines = <<>>) =>
       /\ extractWithBusinessContext(cleanedLines) = <<>>
       /\ extractWithPositionalWeighting(cleanedLines) = <<>>
       /\ extractWithPatternMatching(cleanedLines) = <<>>
       /\ \A s \in {"context", "positional", "pattern"} :
            \A k \in 1..Len(candidates) : candidates[k].strategy # s
       /\ businessNames = <<>>
  /\ pc = "failed" => (ocr.outcome = "rejected" \/ ocr.count = 0)

\* C6 witness: a text of several non-blank lines, all filtered out, was
\* processed to the end.
C6_Witness ==
  /\ pc = "done"
  /\ Len(nonBlankLines(image)) > 1
  /\ cleanedLines = <<>>
  /\ businessNames = <<>>

\* the level of a score given in ten-thousandths
levelOf(scaled) ==
  IF scaled > 7000 THEN "High" ELSE IF scaled > 5000 THEN "Medium" ELSE "Low"

\* 0.5 + 0.1[detections>5] + 0.1[detections>10] + 0.2[names>=1]
\* + 0.1[names>=2] + 0.1[tokens>=5], in thousandths
claimedSum ==
  500
  + (IF ocr.count > 5 THEN 100 ELSE 0)
  + (IF ocr.count > 10 THEN 100 ELSE 0)
  + (IF Len(businessNames) >= 1 THEN 200 ELSE 0)
  + (IF Len(businessNames) >= 2 THEN 100 ELSE 0)
  + (IF countTokens(ocr.description) >= 5 THEN 100 ELSE 0)

\* C7 (as claimed): the composite confidence equals min(0.95, the sum of
\* the bonuses); with more than 10 detections, at least 5 tokens and at
\* least 2 names the sum is 1.0, clamped to 0.95, and businessName is High;
\* address is level(0.8 s) and phone is level(0.7 s).
C7_ConfidenceFormulaSumOne ==
  pc = "done" =>
    /\ finalConfidence = Min(950, claimedSum)
    /\ (ocr.count > 10 /\ countTokens(ocr.description) >= 5
          /\ Len(businessNames) >= 2)
         => /\ claimedSum = 1000
            /\ finalConfidence = 950
            /\ result.confidence.businessName = "High"
    /\ result.confidence.businessName = levelOf(10 * finalConfidence)
    /\ result.confidence.address = levelOf(8 * finalConfidence)
    /\ result.confidence.phone = levelOf(7 * finalConfidence)

\* C7 (amended): the same, the sum of that case being 1.1 instead of 1.0.
C7_ConfidenceFormula ==
  pc = "done" =>
    /\ finalConfidence = Min(950, claimedSum)
    /\ (ocr.count > 10 /\ countTokens(ocr.description) >= 5
          /\ Len(businessNames) >= 2)
         => /\ claimedSum = 1100
            /\ finalConfidence = 950
            /\ result.confidence.businessName = "High"
    /\ result.confidence.businessName = levelOf(10 * finalConfidence)
    /\ result.confidence.address = levelOf(8 * finalConfidence)
    /\ result.confidence.phone = levelOf(7 * finalConfidence)

\* C7 witness: 12 detections, 8 tokens and 2 names.
C7_Witness ==
  /\ pc = "done"
  /\ ocr.count = 12
  /\ countTokens(ocr.description) = 8
  /\ Len(businessNames) = 2
  /\ finalConfidence = 950
  /\ result.confidence.businessName = "High"

\* C17 (as claimed): the first entry of businessNames has a score that is
\* maximal among all candidates the three strategies generated.
C17_TopNameMaximalAmongGenerated ==
  (pc = "done" /\ businessNames # <<>>) =>
    \A k \in 1..Len(candidates) :
      candidateOf(businessNames[1]).score >= candidates[k].score

\* C17 (amended): the first entry of businessNames has a score that is
\* maximal among the candidates that survived deduplication; a name is
\* returned whenever a candidate was generated.
C17_TopNameMaximalAmongUnique ==
  pc = "done" =>
    /\ businessNames # <<>> <=> candidates # <<>>
    /\ businessNames # <<>> =>
         \A i \in 1..Len(uniqueCandidates) :
           candidateOf(businessNames[1]).score >= uniqueCandidates[i].score

\* C17 witness: a generated candidate scores higher than the first name
\* returned, having been dropped as similar to an earlier candidate.
C17_Witness ==
  /\ pc = "done"
  /\ businessNames # <<>>
  /\ \E k \in 1..Len(candidates) :
       /\ candidates[k].score > candidateOf(businessNames[1]).score
       /\ \A i \in 1..Len(uniqueCandidates) :
            uniqueCandidates[i].name # candidates[k].name

\* ------------------------------------------------------------------------
\* Claims about the deduplicator (SpecDedup)
\* ------------------------------------------------------------------------

\* C8: removeSimilarCandidates applied to its own output returns that
\* output, same candidates in the same order.
C8_DedupIdempotent ==
  dedupTwice # NotApplied => dedupTwice = dedupOnce

\* C8 witness: a list lost some of its candidates and kept several in the
\* first pass, and the second pass has run.
C8_Witness ==
  /\ dedupTwice # NotApplied
  /\ Len(dedupOnce) >= 2
  /\ Len(dedupOnce) < Len(dedupInput)

\* the lowercased name of one candidate contains, is contained in, or
\* equals that of the other
similarNames(a, b) ==
  \/ includes(toLowerCase(a.name), toLowerCase(b.name))
  \/ includes(toLowerCase(b.name), toLowerCase(a.name))
  \/ toLowerCase(a.name) = toLowerCase(b.name)

\* the elements of list at the positions in kept, in the order of list
keptOf(list, kept) ==
  [i \in 1..Cardinality(kept) |->
     list[CHOOSE k \in kept : Cardinality({ j \in kept : j <= k }) = i]]

\* C18: removeSimilarCandidates goes through the candidates in generation
\* order and keeps a candidate if and only if no candidate kept before it
\* has a similar name; the kept ones stay in generation order, and the
\* first candidate is kept whatever its score.
C18_DedupKeepsFirstOfSimilar ==
  dedupOnce # NotApplied =>
    /\ \E kept \in SUBSET (1..Len(dedupInput)) :
         /\ \A k \in 1..Len(dedupInput) :
              k \in kept <=>
                \A j \in kept :
                  j < k => ~similarNames(dedupInput[j], dedupInput[k])
         /\ dedupOnce = keptOf(dedupInput, kept)
    /\ dedupInput # <<>> => dedupOnce[1] = dedupInput[1]

\* C18 witness: the first candidate scores lower than the second, which was
\* dropped as similar to it, and a third one was kept.
C18_Witness ==
  /\ dedupOnce # NotApplied
  /\ Len(dedupInput) = 3
  /\ dedupInput[1].score < dedupInput[2].score
  /\ similarNames(dedupInput[1], dedupInput[2])
  /\ dedupInput[1].name # dedupInput[2].name
  /\ dedupOnce = <<dedupInput[1], dedupInput[3]>>

\* ------------------------------------------------------------------------
\* Claims about places.ts (SpecPlaces)
\* ------------------------------------------------------------------------

\* the details request was answered, and not with status OK and a result
detailsFailed ==
  /\ sbDetails.kind # "none"
  /\ ~(sbDetails.kind = "parsed" /\ sbDetails.status = "OK")

\* C9 (as claimed): once the text search succeeded, every failure of the
\* details request (response not ok, status not OK, rejected fetch,
\* unparseable body) makes searchBusiness return a non-null result with the
\* first match's place_id, name and formatted_address; it never returns
\* null or throws then.
C9_DetailsFailureFallsBack ==
  (sbPc = "returned" /\ searchSucceeded(sbSearch) /\ detailsFailed) =>
    /\ sbReturn.kind = "place"
    /\ sbReturn.place.place_id = sbSearch.results[1].place_id
    /\ sbReturn.place.name = sbSearch.results[1].name
    /\ sbReturn.place.formatted_address
         = sbSearch.results[1].formatted_address

\* the text search of a call failed in one of the ways of C10
searchFailed(key, r) ==
  \/ ~key
  \/ r.kind \in {"rejected", "notOk"}
  \/ r.kind = "parsed" /\ r.status # "OK"
  \/ r.kind = "parsed" /\ (~r.hasResults \/ Len(r.results) = 0)

\* C10: for a missing API key, a response that is not ok, a status other
\* than OK, an empty result list or a rejected fetch, searchBusiness
\* returns null and getMultiplePlacesOptions returns an empty list; neither
\* ever throws.
C10_SearchFailureIsNullOrEmpty ==
  /\ sbReturn.kind # "throws"
  /\ gmReturn.kind # "throws"
  /\ (sbPc = "returned" /\ searchFailed(apiKey, sbSearch))
       => sbReturn = ReturnsNull
  /\ (gmPc = "returned" /\ searchFailed(apiKey, gmSearch))
       => gmReturn = ReturnsOptions(<<>>)

\* C10 witness: with the key set, both calls had their fetch rejected and
\* have returned.
C10_Witness ==
  /\ apiKey
  /\ sbPc = "returned"
  /\ gmPc = "returned"
  /\ sbSearch.kind = "rejected"
  /\ gmSearch.kind = "rejected"
  /\ sbReturn = ReturnsNull
  /\ gmReturn = ReturnsOptions(<<>>)

C15_NoRetry ==
  /\ sbRequests \in {<<>>, <<"textsearch">>, <<"textsearch", "details">>}
  /\ Len(sbRequests) = 2 => searchSucceeded(sbSearch)
  /\ sbPc = "returned" =>
       Len(sbRequests) = (IF ~apiKey THEN 0
                          ELSE IF searchSucceeded(sbSearch) THEN 2 ELSE 1)
  /\ gmRequests \in {<<>>, <<"textsearch">>}
  /\ gmPc = "returned" => Len(gmRequests) = (IF apiKey THEN 1 ELSE 0)

\* C15 witness: both requests of searchBusiness were sent, the details
\* fetch was rejected, and the function has returned without a third one;
\* the text search of getMultiplePlacesOptions was rejected likewise.
C15_Witness ==
  /\ sbPc = "returned"
  /\ sbDetails.kind = "rejected"
  /\ sbRequests = <<"textsearch", "details">>
  /\ gmPc = "returned"
  /\ gmSearch.kind = "rejected"
  /\ gmRequests = <<"textsearch">>

\* ------------------------------------------------------------------------
\* Claims about the failure of a text extraction (Spec)
\* ------------------------------------------------------------------------

\* C12: when textDetection resolves with zero detections,
\* extractTextWithEnhancedVision throws and hands no ExtractedText to the
\* caller: no names, no confidence, nothing computed on the way.
C12_ZeroDetectionsThrowNoResult ==
  (ocr.outcome = "resolved" /\ ocr.count = 0) =>
    /\ pc = "failed"
    /\ thrown # ""
    /\ result = NoResult
    /\ finalConfidence = 0
    /\ cleanedLines = <<>>
    /\ candidates = <<>>

\* C12 witness: the sign carries text, the OCR answered with no detection
\* and the request has failed.
C12_Witness ==
  /\ image # ""
  /\ ocr.outcome = "resolved"
  /\ ocr.count = 0
  /\ pc = "failed"

\* C13 (as claimed): the error thrown for zero detections is the "no text
\* detected" error, and no other failure of the OCR call throws it.
C13_NoTextErrorIsTold ==
  pc = "failed" =>
    (thrown = "No text detected in image"
       <=> (ocr.outcome = "resolved" /\ ocr.count = 0))

\* ------------------------------------------------------------------------
\* Claims about the screen workflow (SpecUi)
\* ------------------------------------------------------------------------

\* the three reasons for a confirmation, as C14 lists them
confirmationIsDue(textData) ==
  \/ textData.confidence.businessName = "Low"
  \/ textData.businessNames = <<>>
  \/ /\ textData.businessNames # <<>>
     /\ \E word \in {"business", "company", "store", "shop"} :
          includes(toLowerCase(textData.businessNames[1]), word)
     /\ Len(textData.businessNames[1]) < 10

\* C14: when /api/extract-text answers with a text record (no error is
\* set), processImage
\* moves to confirmation if and only if the businessName confidence is Low,
\* or there is no name, or the first name contains a generic word and is
\* shorter than 10 characters; otherwise it stays in processing and sends
\* the places request with businessNames[0], which is then defined.
C14_ConfirmationIffDue ==
  [][(awaiting = "extract" /\ error' = "") =>
       /\ currentStep' = "confirmation"
            <=> confirmationIsDue(extractedTextData')
       /\ currentStep' # "confirmation" =>
            /\ currentStep' = "processing"
            /\ awaiting' = "process"
            /\ extractedTextData'.businessNames # <<>>
            /\ requestBody'.businessNames[1]
                 = extractedTextData'.businessNames[1]
            /\ requestBody'.businessNames[1] # "undefined"]_vars

\* C14 witness: a generic short first name with High confidence has led to
\* the confirmation step.
C14_Witness ==
  /\ currentStep = "confirmation"
  /\ running = "none"
  /\ extractedTextData.confidence.businessName = "High"
  /\ Len(extractedTextData.businessNames) = 2
  /\ extractedTextData.businessNames[1] = "My Shop"

isDiscarded(t) ==
  \/ Len(t) <= 1
  \/ toLowerCase(t) \in {"our", "menu", "hours", "open", "closed",
                         "welcome", "visit", "call", "phone", "email"}
  \/ startsWith(toLowerCase(t), "www")
  \/ startsWith(toLowerCase(t), "http")
  \/ \E i \in 1..Len(t) : CharAt(t, i) = "@"
  \/ (t # "" /\ \A i \in 1..Len(t) : CharAt(t, i) \in DigitSet)
  \/ t \in {"&", "-"}
  \/ \A i \in 1..Len(t) : CharAt(t, i) \notin (UpperSet \cup LowerSet)

\* C19: preprocessLines returns exactly the trimmed input lines, in input
\* order, of which no discard condition holds; every returned line is
\* non-empty, has no space at either end and contains a Latin letter.
C19_PreprocessKeepsExactly ==
  fnPc = "done" =>
    LET trimmed == [k \in 1..Len(ppLines) |-> trim(ppLines[k])]
        kept == { k \in 1..Len(ppLines) : ~isDiscarded(trimmed[k]) }
    IN  /\ ppResult = keptOf(trimmed, kept)
        /\ \A r \in 1..Len(ppResult) :
             /\ ppResult[r] # ""
             /\ CharAt(ppResult[r], 1) \notin SpaceSet
             /\ CharAt(ppResult[r], Len(ppResult[r])) \notin SpaceSet
             /\ \E i \in 1..Len(ppResult[r]) :
                  CharAt(ppResult[r], i) \in (UpperSet \cup LowerSet)

\* C19 witness: of two lines the first is a stoplist word in capitals and
\* was discarded, the second was trimmed and kept.
C19_Witness ==
  /\ fnPc = "done"
  /\ ppLines = <<"OPEN", " Bar ">>
  /\ ppResult = <<"Bar">>

\* ------------------------------------------------------------------------
\* Claims about extractWithBusinessContext (SpecContext)
\* ------------------------------------------------------------------------

\* the windows of C20: start i, end j in (i, i+4], zero-based, end exclusive
windowsOf(n) ==
  { w \in (0..(n - 1)) \X (1..n) : w[2] > w[1] /\ w[2] <= w[1] + 4 }

\* window v comes before window w: by start, then by end
windowBefore(v, w) == v[1] < w[1] \/ (v[1] = w[1] /\ v[2] < w[2])

\* lines[i..j) joined with single spaces
windowText(lines, w) ==
  IF w[2] = w[1] + 1 THEN lines[w[1] + 1]
  ELSE IF w[2] = w[1] + 2 THEN lines[w[1] + 1] \o " " \o lines[w[1] + 2]
  ELSE IF w[2] = w[1] + 3
    THEN lines[w[1] + 1] \o " " \o lines[w[1] + 2] \o " " \o lines[w[1] + 3]
  ELSE lines[w[1] + 1] \o " " \o lines[w[1] + 2] \o " " \o lines[w[1] + 3]
         \o " " \o lines[w[1] + 4]

\* the window's text is shorter than 50 and its lowercased form contains
\* every word of some keyword group
windowQualifies(lines, w) ==
  LET text == windowText(lines, w)
      lower == toLowerCase(text)
  IN  /\ Len(text) < 50
      /\ \E group \in { <<"coffee">>, <<"food", "park">>,
                        <<"coffee", "shop">>, <<"restaurant">>,
                        <<"market">>, <<"center">>, <<"plaza">>,
                        <<"cafe">>, <<"grill">>, <<"bar">> } :
           \A m \in 1..Len(group) : includes(lower, group[m])

\* C20: extractWithBusinessContext emits, for every window of 1 to 4
\* consecutive lines, its space-joined text exactly once if the text is
\* shorter than 50 characters and contains every word of at least one
\* keyword group, and nothing otherwise, ordered by window start, then end.
C20_ContextEmitsOncePerWindow ==
  fnPc = "done" =>
    LET qualifying == { w \in windowsOf(Len(ctxLines)) :
                          windowQualifies(ctxLines, w) }
    IN  /\ Len(ctxResult) = Cardinality(qualifying)
        /\ \A w \in qualifying :
             ctxResult[1 + Cardinality({ v \in qualifying :
                                           windowBefore(v, w) })]
               = windowText(ctxLines, w)

\* C20 witness: five lines; a window matching two groups was emitted once,
\* a two-line window of 49 characters was emitted and one of 50 was not.
C20_Witness ==
  /\ fnPc = "done"
  /\ ctxLines = <<"Food", "Coffee Shop", "Market Hall Number Seven",
                  "Market Hall Number Seven", "Market Hall Number Eleven">>
  /\ Len(SelectSeq(ctxResult, LAMBDA c : c = "Coffee Shop")) = 1
  /\ \E r \in 1..Len(ctxResult) : Len(ctxResult[r]) = 49
  /\ \A r \in 1..Len(ctxResult) : Len(ctxResult[r]) < 50

\* ------------------------------------------------------------------------
\* Claims about extractWithPositionalWeighting (SpecPositional)
\* ------------------------------------------------------------------------

\* the texts of the windows of 1 to 3 consecutive lines that lie wholly
\* within the first min(5, lineCount) lines
textsWithinFirstFive(lines) ==
  { windowText(lines, w) :
      w \in { v \in windowsOf(Min(5, Len(lines))) : v[2] <= v[1] + 3 } }

\* C21: every candidate the Positional Generator emits is composed solely
\* of lines whose index is below 5.
C21_PositionalWithinFirstFive ==
  fnPc = "done" =>
    \A r \in 1..Len(posResult) :
      posResult[r] \in textsWithinFirstFive(posLines)

\* ------------------------------------------------------------------------
\* Claims about extractWithPatternMatching (SpecPattern)
\* ------------------------------------------------------------------------

\* a word of one capital followed by one or more small letters
properCaseWord(w) ==
  /\ Len(w) >= 2
  /\ CharAt(w, 1) \in UpperSet
  /\ \A i \in 2..Len(w) : CharAt(w, i) \in LowerSet

\* a word of one or more capitals
allCapsWord(w) == Len(w) >= 1 /\ \A i \in 1..Len(w) : CharAt(w, i) \in UpperSet

\* the text is two or three words of one shape, single spaces between
hasCapitalizationShape(text) ==
  LET words == split(text, " ")
  IN  /\ Len(words) \in {2, 3}
      /\ \/ \A k \in 1..Len(words) : properCaseWord(words[k])
         \/ \A k \in 1..Len(words) : allCapsWord(words[k])

\* the windows of 1 to 3 consecutive lines whose text has at most 35
\* characters and one of the four shapes
shapedWindows(lines) ==
  { w \in windowsOf(Len(lines)) :
      /\ w[2] <= w[1] + 3
      /\ Len(windowText(lines, w)) <= 35
      /\ hasCapitalizationShape(windowText(lines, w)) }

keywordTable ==
  << <<"coffee", 7>>, <<"food park", 8>>, <<"coffee shop", 7>>,
     <<"restaurant", 6>>, <<"market", 5>>, <<"center", 4>>, <<"plaza", 4>>,
     <<"cafe", 5>>, <<"grill", 5>>, <<"bar", 4>> >>

\* the points of the first entry of keywordTable, from entry k on, whose
\* word the lowercased name contains; 0 when there is none
RECURSIVE firstKeywordPoints(_, _)
firstKeywordPoints(lower, k) ==
  IF k > Len(keywordTable) THEN 0
  ELSE IF includes(lower, keywordTable[k][1]) THEN keywordTable[k][2]
  ELSE firstKeywordPoints(lower, k + 1)

\* C23: scoreBusinessName(name, position) is non-negative and equals
\* max(0, positionScore + lengthScore + formatScore + keywordScore
\* + completenessScore - penalties), keywordScore being the points of the
\* first keyword of the ordered table that the lowercased name contains,
\* 0 without any; a name with both 'coffee' and 'food park' gets 7.
C23_ScoreIsClampedSumFirstKeyword ==
  fnPc = "done" =>
    LET lower == toLowerCase(scName)
        sum == positionScore(scPosition) + lengthScore(scName)
                 + formatScore(scName) + firstKeywordPoints(lower, 1)
                 + completenessScore(scName) - penalties(scName)
    IN  /\ scResult >= 0
        /\ scResult = IF sum > 0 THEN sum ELSE 0
        /\ (includes(lower, "coffee") /\ includes(lower, "food park"))
             => firstKeywordPoints(lower, 1) = 7
        /\ (\A k \in 1..Len(keywordTable) :
              ~includes(lower, keywordTable[k][1]))
             => firstKeywordPoints(lower, 1) = 0

\* C23 witness: a name holding both 'coffee' and 'food park' was scored at
\* position 0: 10 + 4 + 2 + 7 + 3.
C23_Witness ==
  /\ fnPc = "done"
  /\ scName = "Coffee Food Park"
  /\ scPosition = 0
  /\ scResult = 26

\* ------------------------------------------------------------------------
\* Claims about otherText (SpecOtherText)
\* ------------------------------------------------------------------------

\* the extracted phone numbers, websites and emails
extractedMatches ==
  { otPhoneNumbers[m] : m \in 1..Len(otPhoneNumbers) }
    \cup { otWebsites[m] : m \in 1..Len(otWebsites) }
    \cup { otEmails[m] : m \in 1..Len(otEmails) }

\* match occurs in line as a run of consecutive characters
containsMatch(line, match) ==
  \E a \in 1..(Len(line) + 1) : \E b \in (a - 1)..Len(line) :
    SubSeq(line, a, b) = match

\* the line has a character that is not white space
isNonBlank(line) == \E i \in 1..Len(line) : CharAt(line, i) \notin SpaceSet

\* C24: otherText is, in source order, exactly the non-blank lines of the
\* full text that contain none of the extracted phone numbers, websites or
\* emails; no line of otherText contains an extracted match.
C24_OtherTextExcludesMatchedLines ==
  fnPc = "done" =>
    LET lines == split(otFullText, "\n")
        kept == { k \in 1..Len(lines) :
                    /\ isNonBlank(lines[k])
                    /\ \A m \in extractedMatches :
                         ~containsMatch(lines[k], m) }
    IN  /\ otResult = keptOf(lines, kept)
        /\ \A r \in 1..Len(otResult) : \A m \in extractedMatches :
             ~containsMatch(otResult[r], m)

\* C24 witness: of three lines the one with the phone number and the
\* blank one were left out, the plain one was kept.
C24_Witness ==
  /\ fnPc = "done"
  /\ otFullText = "Joes Bar\n  \nCall 555-123-4567"
  /\ otPhoneNumbers = <<"555-123-4567">>
  /\ otResult = <<"Joes Bar">>

\* ------------------------------------------------------------------------
\* Further claims about BusinessListingGenerator (SpecUi)
\* ------------------------------------------------------------------------

\* C25: when /api/process-business answers a continueProcessing call made
\* with a selected location, the workflow is never sent to location
\* selection again, whatever the response says: the location options and
\* the stored data stay as they are, and the run either goes on to the
\* results or ends in the handler's catch with the error set; the step
\* location-selection is entered without an error only by a call made
\* without a selected location.
C25_NoSecondLocationRequest ==
  [][/\ (awaiting = "process" /\ selectedLocation # 0) =>
          /\ UNCHANGED <<locationOptions, businessData>>
          /\ \/ awaiting' = "timer" /\ currentStep' = "processing"
             \/ running' = "none" /\ error' # ""
     /\ (awaiting = "timer" /\ selectedLocation # 0) =>
          currentStep' = "results"
     /\ (currentStep = "processing" /\ currentStep' = "location-selection"
           /\ UNCHANGED error /\ error = "") =>
          selectedLocation = 0]_vars

\* C25 witness: a call made with a selected location was answered with
\* hasMultipleLocations = true and a list of options, and is on its way to
\* the results.
C25_Witness ==
  /\ awaiting = "timer"
  /\ selectedLocation # 0
  /\ processResult.hasMultipleLocations
  /\ processResult.locationOptions.present
  /\ Len(processResult.locationOptions.list) > 0

\* the step the user started the running handler from
originOfRunning ==
  CASE running \in {"processImage", "handleManualSubmit"} -> "upload"
    [] running = "handleBusinessNameConfirmation" -> "confirmation"
    [] running = "handleLocationSelection" -> "location-selection"
    [] OTHER -> "none"

\* a failed request has brought the workflow back to the step the user
\* acted from, with a message, and has left the stored data alone
backAtOriginWithError ==
  /\ error' # ""
  /\ running' = "none"
  /\ currentStep' = originOfRunning
  /\ UNCHANGED businessData
  /\ originOfRunning = "upload" => processingProgress' = 0

\* C26: the answer to a request never leads straight to the results; when
\* it ends the handler, either the request succeeded (the confirmation or
\* the location selection is asked for, the error untouched) or the
\* workflow is back at the step the user acted from with the error message
\* set, the progress 0 if that step is upload, and businessData unchanged;
\* whenever an answer changes the error, the latter is the case.
C26_FailureReturnsToOrigin ==
  [][(awaiting \in {"extract", "process"}) =>
       /\ currentStep' # "results"
       /\ running' = "none" =>
            \/ /\ awaiting = "extract"
               /\ currentStep' = "confirmation"
               /\ UNCHANGED error
            \/ /\ awaiting = "process"
               /\ selectedLocation = 0
               /\ currentStep' = "location-selection"
               /\ UNCHANGED error
            \/ backAtOriginWithError
       /\ error' # error => backAtOriginWithError]_vars

\* C26 witness: the request made after a name confirmation has failed and
\* the confirmation screen is back with the server's message.
C26_Witness ==
  /\ currentStep = "confirmation"
  /\ running = "none"
  /\ error = "server says no"
  /\ confirmedBusinessName # ""

\* C27: in every reachable state the current step has the data its screen
\* needs: confirmation has extractedTextData, location-selection has a
\* non-empty locationOptions, results has businessData.
C27_StepHasItsData ==
  /\ currentStep = "confirmation" => ~extractedTextData.isNull
  /\ currentStep = "location-selection" => Len(locationOptions) > 0
  /\ currentStep = "results" => ~businessData.isNull

\* C28: whenever the step is processing a handler is waiting for a request
\* or for the timer, and the step is eventually left.
C28_ProcessingIsLeft ==
  /\ [](currentStep = "processing" =>
          (running # "none" /\ awaiting \in {"extract", "process", "timer"}))
  /\ (currentStep = "processing") ~> (currentStep # "processing")

\* C28 witness: a run that went through processing up to 100 percent has
\* ended on the results screen.
C28_Witness ==
  /\ currentStep = "results"
  /\ running = "none"
  /\ processingProgress = 100
  /\ ~businessData.isNull

\* the name chosen for the run whose request is being sent: the one just
\* confirmed or typed, the first extracted one when the run needs no
\* confirmation, and for the request that follows a location selection the
\* name the run's earlier request was made for
chosenName ==
  CASE running' \in {"handleManualSubmit", "handleBusinessNameConfirmation"}
         -> confirmedBusinessName'
    [] running' = "processImage" -> extractedTextData'.businessNames[1]
    [] OTHER -> requestBody.businessNames[1]

\* C29: in every request sent by continueProcessing the chosen business
\* name is the first of businessNames and occurs there once, the other
\* extracted names following in their original order.
C29_ChosenNameFirstOnce ==
  [][(awaiting' = "process" /\ awaiting # "process") =>
       LET sent == requestBody'.businessNames
       IN  /\ sent[1] = chosenName
           /\ \A k \in 2..Len(sent) : sent[k] # chosenName
           /\ SubSeq(sent, 2, Len(sent))
                = SelectSeq(extractedTextData'.businessNames,
                            LAMBDA name : name # chosenName)]_vars

\* ------------------------------------------------------------------------
\* A further claim about calculateSmartConfidence (Spec)
\* ------------------------------------------------------------------------

\* High > Medium > Low
levelRank(level) ==
  CASE level = "High" -> 3
    [] level = "Medium" -> 2
    [] level = "Low" -> 1

\* C30: the three confidence levels are ordered businessName >= address
\* >= phone, and the phone level is never High, 0.7 times the clamped score
\* being at most 0.665 (scores in thousandths).
C30_LevelsOrderedPhoneNeverHigh ==
  pc = "done" =>
    /\ levelRank(result.confidence.businessName)
         >= levelRank(result.confidence.address)
    /\ levelRank(result.confidence.address)
         >= levelRank(result.confidence.phone)
    /\ result.confidence.phone # "High"
    /\ finalConfidence * 7 <= 665 * 10

\* C30 witness: a score of 0.8 gives High for the name and Medium for the
\* address and the phone.
C30_Witness ==
  /\ pc = "done"
  /\ finalConfidence = 800
  /\ result.confidence =
       [businessName |-> "High", address |-> "Medium", phone |-> "Medium"]

====
